---- MODULE Spec2Model ----
(***************************************************************************)
(* A model of swbf-unmunge's chunk reader (Ucfb_reader) and of the model   *)
(* decoder built on it (handle_model.cpp).                                 *)
(*                                                                         *)
(* A reader is a view of a payload of `size` bytes with one piece of       *)
(* mutable state, the head.  The payload is a sequence of bytes (0..255),  *)
(* 1-indexed here: the byte the code calls _data[i] is data[i + 1].        *)
(***************************************************************************)
EXTENDS Integers, Sequences, FiniteSets, TLC

VARIABLES
    data,   \* the payload of the chunk the reader views (_data, _size bytes)
    head,   \* Ucfb_reader::_head
    last,   \* the last operation: what was asked, where, and how it ended
    out     \* the value the decoder under study has produced

vars == <<data, head, last, out>>

(***************************************************************************)
(* Bounds of the model.                                                    *)
(***************************************************************************)
MaxPre == 1      \* bytes in front of the first child header of a payload
MaxDecl == 5     \* largest size a child header of a payload declares
MaxBody == 5     \* bytes that follow the first child header
MaxCount == 3    \* largest element count of an array read
MaxConsume == 2  \* largest amount of a consume
MaxOver == 3     \* a reader is used on while head <= size + MaxOver
MaxStray == 1    \* longest string a scan outside the payload may find
MaxNameLen == 5  \* longest NAME string
MaxInfoSize == 76  \* largest size of an INFO chunk
MaxWords == 6    \* most 32 bit words after the flag word of a dialect-1 MTRL
MaxLight == 1    \* longest attached light name of a dialect-2 MTRL
MaxBits == 3     \* most flag bits set together in a flag word, short of all of them
MaxIndices == 4  \* longest index buffer given to read_vertex_strip_ps2
MaxWorkers == 2  \* workers that call handle_unknown
MaxCalls == 6    \* calls of handle_unknown each worker makes
MaxProps == 3    \* most PROP children of an object chunk
MaxKids == 3     \* most children of a segm chunk, the INFO of PS2 apart
MaxSegms == 2    \* most children of a model chunk after its INFO
MaxTurns == 8    \* most turns of a loop over children that are followed

(***************************************************************************)
(* Bytes and words.                                                        *)
(***************************************************************************)
\* A little-endian u32 from four bytes (reinterpret_cast on the LE host).
LE32(b) == b[1] + 256 * b[2] + 65536 * b[3] + 16777216 * b[4]

\* A little-endian std::int32_t from four bytes: two's complement, the top
\* bit of the last byte being the sign.
LE32Signed(b) ==
    b[1] + 256 * b[2] + 65536 * b[3]
        + 16777216 * (IF b[4] >= 128 THEN b[4] - 256 ELSE b[4])

\* The four bytes of a u32, little-endian.
U32Bytes(v) ==
    << v % 256, (v \div 256) % 256, (v \div 65536) % 256, (v \div 16777216) % 256 >>

\* Bytes data[from + 1 .. from + n] of a payload: _data[from .. from + n).
Slice(d, from, n) == [i \in 1..n |-> d[from + i]]

MagicAAAA == LE32(<<65, 65, 65, 65>>)
MagicBBBB == LE32(<<66, 66, 66, 66>>)
Tags == {MagicAAAA, MagicBBBB}

\* The size of a chunk header: a magic number and a u32 size.
HeaderSize == 8

ChunkHeader(mn, sz) == U32Bytes(mn) \o U32Bytes(sz)

\* k bytes ending in a NUL: a string of k - 1 characters.
Pre(k) == [i \in 1..k |-> IF i = k THEN 0 ELSE 120]

\* k bytes with a NUL at every third place: strings of two characters, and
\* an unterminated tail when k is not a multiple of three.
Body(k) == [i \in 1..k |-> IF i % 3 = 0 THEN 0 ELSE 120]

\* The payloads a reader is constructed over.
Payloads ==
    {Pre(p) \o ChunkHeader(t, s) \o Body(b) \o tail :
        p \in 0..MaxPre, t \in Tags, s \in 0..MaxDecl, b \in 0..MaxBody,
        tail \in {<< >>, ChunkHeader(MagicBBBB, 0)}}
    \cup {Body(b) : b \in 0..MaxBody}

(***************************************************************************)
(* Ucfb_reader.                                                            *)
(***************************************************************************)
Size == Len(data)

NoChild == [present |-> FALSE, mn |-> 0, size |-> 0]
Child(mn, sz) == [present |-> TRUE, mn |-> mn, size |-> sz]

\* The result of an operation: the head it leaves, how it ended ("ok", the
\* "absent" of an optional read, or the error thrown) and the sub-reader (or
\* string length) it returned.
Result(h, outcome, child, len) ==
    [head |-> h, outcome |-> outcome, child |-> child, len |-> len]

\* check_head: the read has gone past the end of the chunk.
check_head_throws(h, size) == h > size

\* Mutants of align_head: the remainder added instead of what is missing to
\* the margin; the head rounded down.
align_head_adds_remainder(h) ==
    LET remainder == h % 4
    IN IF remainder # 0 THEN h + remainder ELSE h

align_head_rounds_down(h) == h - (h % 4)

\* align_head: the head moves to the next four byte margin.
align_head(h) ==
    LET remainder == h % 4
    IN IF remainder # 0 THEN h + (4 - remainder) ELSE h

\* A mutant of Advance: the head checked before it is moved.
Advance_checks_first(h, size, n, unaligned) ==
    IF check_head_throws(h, size)
    THEN Result(h + n, "BoundsViolation", NoChild, 0)
    ELSE Result(IF unaligned THEN h + n ELSE align_head(h + n), "ok", NoChild, 0)

\* The common tail of read_trivial, read_array and read_string:
\* _head += n; check_head(); if (!unaligned) align_head();
Advance(h, size, n, unaligned) ==
    LET moved == h + n
    IN IF check_head_throws(moved, size)
       THEN Result(moved, "BoundsViolation", NoChild, 0)
       ELSE Result(IF unaligned THEN moved ELSE align_head(moved), "ok", NoChild, 0)

read_trivial(h, size, sizeofType, unaligned) == Advance(h, size, sizeofType, unaligned)

read_array(h, size, sizeofType, count, unaligned) ==
    Advance(h, size, sizeofType * count, unaligned)

\* cstring_length(string, max_length): the distance to the first NUL within
\* max_length characters, max_length when there is none.
RECURSIVE cstring_length(_, _, _)
cstring_length(d, from, max_length) ==
    IF max_length = 0 \/ d[from + 1] = 0
    THEN 0
    ELSE 1 + cstring_length(d, from + 1, max_length - 1)

\* read_string with the length its scan found.
read_string_of(h, size, string_length, unaligned) ==
    [Advance(h, size, string_length + 1, unaligned) EXCEPT !.len = string_length]

\* The lengths the scan of read_string can find.  With the head past the
\* end of the payload _size - _head wraps around and the scan leaves the
\* chunk: it may stop anywhere.
StringLengths(d, h) ==
    IF h <= Len(d) THEN {cstring_length(d, h, Len(d) - h)} ELSE 0..MaxStray

\* read_child: the bytes at the head are a chunk header; the child's eight
\* header bytes and its declared size must fit in what is left of the
\* payload.  A read that fails leaves the head where it was.
read_child(d, h, unaligned) ==
    IF h + HeaderSize > Len(d)
    THEN Result(h, "BoundsViolation", NoChild, 0)
    ELSE LET child_mn == LE32(Slice(d, h, 4))
             child_size == LE32(Slice(d, h + 4, 4))
             moved == h + HeaderSize + child_size
         IN IF check_head_throws(moved, Len(d))
            THEN Result(h, "BoundsViolation", NoChild, 0)
            ELSE Result(IF unaligned THEN moved ELSE align_head(moved), "ok",
                        Child(child_mn, child_size), 0)

\* A mutant of read_child_nothrow: the header stays consumed when the child
\* does not fit.
read_child_nothrow_keeps_header(d, h, unaligned) ==
    LET r == read_child(d, h, unaligned)
    IN IF r.outcome = "ok"
       THEN r
       ELSE Result(IF h + HeaderSize <= Len(d) THEN h + HeaderSize ELSE h, "absent",
                   NoChild, 0)

\* read_child(std::nothrow): absent instead of an exception.
read_child_nothrow(d, h, unaligned) ==
    LET r == read_child(d, h, unaligned)
    IN IF r.outcome = "ok" THEN r ELSE Result(h, "absent", NoChild, 0)

\* read_child_strict: the child's magic number must be the expected one.
read_child_strict(d, h, child_mn, unaligned) ==
    LET r == read_child(d, h, unaligned)
    IN IF r.outcome = "ok" /\ r.child.mn # child_mn
       THEN Result(h, "UnexpectedMagic", NoChild, 0)
       ELSE r

\* read_child_strict_optional: absent when the magic number is another one.
read_child_strict_optional(d, h, child_mn, unaligned) ==
    LET r == read_child(d, h, unaligned)
    IN IF r.outcome = "ok" /\ r.child.mn # child_mn
       THEN Result(h, "absent", NoChild, 0)
       ELSE r

\* consume, by the rules given for a trivial read: new_head = head + amount,
\* a failure if new_head > size; the head advances to new_head, in aligned
\* mode to the next four byte margin, clamped to size.
consume(h, size, amount, unaligned) ==
    LET new_head == h + amount
        Clamped(rounded) == IF rounded > size THEN size ELSE rounded
    IN IF new_head > size
       THEN Result(h, "BoundsViolation", NoChild, 0)
       ELSE Result(IF unaligned THEN new_head ELSE Clamped(align_head(new_head)),
                   "ok", NoChild, 0)

\* operator bool: the end of the chunk has not been reached.
Truthy(h, size) == h < size

(***************************************************************************)
(* The reader as a state machine: a payload, and any sequence of           *)
(* operations on the reader constructed over it.                           *)
(***************************************************************************)
TrivialSizes == {1, 2, 4}
ElementSizes == {1, 2}

Op(op, n, unaligned, tag, r) ==
    [op |-> op, h0 |-> head, n |-> n, unaligned |-> unaligned, tag |-> tag,
     outcome |-> r.outcome, child |-> r.child, len |-> r.len]

Init ==
    /\ data \in Payloads
    /\ head = 0
    /\ last = [op |-> "construct", h0 |-> 0, n |-> 0, unaligned |-> FALSE, tag |-> 0,
               outcome |-> "ok", child |-> NoChild, len |-> 0]
    /\ out = << >>

\* A reader whose head ran far past the end is not used again (reset_head
\* apart): this bounds the head.
Usable == head <= Size + MaxOver

Apply(op, n, unaligned, tag, r) ==
    /\ Usable
    /\ head' = r.head
    /\ last' = Op(op, n, unaligned, tag, r)
    /\ UNCHANGED <<data, out>>

ReadTrivial ==
    \E n \in TrivialSizes, u \in BOOLEAN :
        Apply("read_trivial", n, u, 0, read_trivial(head, Size, n, u))

ReadArray ==
    \E e \in ElementSizes, c \in 0..MaxCount, u \in BOOLEAN :
        Apply("read_array", e * c, u, 0, read_array(head, Size, e, c, u))

ReadString ==
    \E u \in BOOLEAN : \E len \in StringLengths(data, head) :
        Apply("read_string", len + 1, u, 0, read_string_of(head, Size, len, u))

ReadChild ==
    \E u \in BOOLEAN : Apply("read_child", 0, u, 0, read_child(data, head, u))

ReadChildNothrow ==
    \E u \in BOOLEAN :
        Apply("read_child_nothrow", 0, u, 0, read_child_nothrow(data, head, u))

ReadChildStrict ==
    \E t \in Tags, u \in BOOLEAN :
        Apply("read_child_strict", 0, u, t, read_child_strict(data, head, t, u))

ReadChildStrictOptional ==
    \E t \in Tags, u \in BOOLEAN :
        Apply("read_child_strict_optional", 0, u, t,
              read_child_strict_optional(data, head, t, u))

Consume ==
    \E a \in 0..MaxConsume, u \in BOOLEAN :
        Apply("consume", a, u, 0, consume(head, Size, a, u))

\* reset_head
ResetHead ==
    /\ head # 0
    /\ head' = 0
    /\ last' = [op |-> "reset_head", h0 |-> head, n |-> 0, unaligned |-> FALSE,
                tag |-> 0, outcome |-> "ok", child |-> NoChild, len |-> 0]
    /\ UNCHANGED <<data, out>>

Next ==
    \/ ReadTrivial
    \/ ReadArray
    \/ ReadString
    \/ ReadChild
    \/ ReadChildNothrow
    \/ ReadChildStrict
    \/ ReadChildStrictOptional
    \/ Consume
    \/ ResetHead

Spec == Init /\ [][Next]_vars

(***************************************************************************)
(* handle_model.cpp: read_model_name.  A NAME chunk holds the model's name  *)
(* as a NUL-terminated string; characters are their byte values.           *)
(***************************************************************************)
LOD1 == <<76, 79, 68, 49>>
LOD2 == <<76, 79, 68, 50>>
LOWD == <<76, 79, 87, 68>>

\* The characters of the names of the model: L O D W 1 2 x.
NameChars == {76, 79, 68, 87, 49, 50, 120}

Names == UNION {[1..n -> NameChars] : n \in 0..MaxNameLen}

\* a - b in std::size_t.  The model keeps 31 bits of the 64: a difference
\* below zero wraps to a value far above every length, as it does in the code.
SizeSub(a, b) == IF a >= b THEN a - b ELSE (2147483647 - (b - a)) + 1

\* std::string_view::substr(pos, count): out_of_range when pos > size(),
\* else the characters [pos, pos + min(count, size() - pos)).
substr(s, pos, count) ==
    IF pos > Len(s)
    THEN [thrown |-> TRUE, value |-> << >>]
    ELSE [thrown |-> FALSE,
          value |-> SubSeq(s, pos + 1, pos + (IF count <= Len(s) - pos
                                              THEN count ELSE Len(s) - pos))]

NameResult(thrown, name, lod) == [thrown |-> thrown, name |-> name, lod |-> lod]

\* read_model_name on a NAME reader over payload d: the pair it returns, or
\* the exception that leaves it.
read_model_name(d) ==
    LET len == cstring_length(d, 0, Len(d))
        rs == read_string_of(0, Len(d), len, FALSE)
        name_view == Slice(d, 0, len)
        suffix == substr(name_view, SizeSub(len, 4), 4)
        unsuffixed_name == substr(name_view, 0, SizeSub(len, 4))
    IN IF rs.outcome # "ok"
       THEN NameResult(rs.outcome, << >>, "zero")
       ELSE IF suffix.thrown \/ unsuffixed_name.thrown
            THEN NameResult("out_of_range", << >>, "zero")
            ELSE IF suffix.value = LOD1
                 THEN NameResult("none", unsuffixed_name.value, "one")
                 ELSE IF suffix.value = LOD2
                      THEN NameResult("none", unsuffixed_name.value, "two")
                      ELSE IF suffix.value = LOWD
                           THEN NameResult("none", unsuffixed_name.value, "lowres")
                           ELSE NameResult("none", name_view, "zero")

Constructed ==
    [op |-> "construct", h0 |-> 0, n |-> 0, unaligned |-> FALSE, tag |-> 0,
     outcome |-> "ok", child |-> NoChild, len |-> 0]

Called(op, outcome) ==
    [op |-> op, h0 |-> 0, n |-> 0, unaligned |-> FALSE, tag |-> 0,
     outcome |-> outcome, child |-> NoChild, len |-> 0]

InitName ==
    /\ data \in {n \o <<0>> : n \in Names}
    /\ head = 0
    /\ last = Constructed
    /\ out = << >>

ReadModelName ==
    /\ last.op = "construct"
    /\ LET r == read_model_name(data)
       IN /\ out' = r
          /\ last' = Called("read_model_name", IF r.thrown = "none" THEN "ok" ELSE r.thrown)
    /\ head' = read_string_of(0, Len(data), cstring_length(data, 0, Len(data)), FALSE).head
    /\ UNCHANGED data

NextName == ReadModelName

SpecName == InitName /\ [][NextName]_vars

(***************************************************************************)
(* handle_model.cpp: read_model_info.                                      *)
(***************************************************************************)
\* sizeof(std::int32_t), sizeof(std::uint32_t)
SizeofInt32 == 4
\* sizeof(std::array<pod::Vec3, 2>): two vectors of three floats.
SizeofBox == 24

\* A mutant of InfoReads: four ints skipped for the 68 byte INFO, three for
\* the 72 byte one.
InfoReads_swapped(size) ==
    << IF size = 68 THEN 4 * SizeofInt32 ELSE 3 * SizeofInt32,
       SizeofBox, SizeofBox, SizeofInt32, SizeofInt32 >>

\* The reads read_model_info makes of an INFO chunk of the given size, in
\* order: the bytes of each.
InfoReads(size) ==
    << IF size = 72 THEN 4 * SizeofInt32 ELSE 3 * SizeofInt32,
       SizeofBox, SizeofBox, SizeofInt32, SizeofInt32 >>

\* Aligned trivial reads of the given sizes from head h, one after the other:
\* the heads where each read began, the head left, and how the last one ended.
RECURSIVE ReadAll(_, _, _, _)
ReadAll(h, size, sizes, starts) ==
    IF sizes = << >>
    THEN [head |-> h, outcome |-> "ok", starts |-> starts]
    ELSE LET r == read_trivial(h, size, Head(sizes), FALSE)
         IN IF r.outcome # "ok"
            THEN [head |-> r.head, outcome |-> r.outcome, starts |-> starts]
            ELSE ReadAll(r.head, size, Tail(sizes), Append(starts, h))

\* read_model_info on an INFO reader over payload d: the exception thrown if
\* any, the head left, where each field read began, and face_count.
read_model_info(d) ==
    LET size == Len(d)
    IN IF size # 72 /\ size # 68
       THEN [thrown |-> "UnknownModelInfo", head |-> 0, starts |-> << >>, face_count |-> 0]
       ELSE LET r == ReadAll(0, size, InfoReads(size), << >>)
            IN [thrown |-> IF r.outcome = "ok" THEN "none" ELSE r.outcome,
                head |-> r.head,
                starts |-> r.starts,
                face_count |-> IF r.outcome = "ok" THEN LE32(Slice(d, r.starts[5], 4))
                               ELSE 0]

\* An INFO payload of s bytes: byte i holds i.
InfoPayload(s) == [i \in 1..s |-> i]

InitInfo ==
    /\ data \in {InfoPayload(s) : s \in 0..MaxInfoSize}
    /\ head = 0
    /\ last = Constructed
    /\ out = << >>

ReadModelInfo ==
    /\ last.op = "construct"
    /\ LET r == read_model_info(data)
       IN /\ out' = r
          /\ head' = r.head
          /\ last' = Called("read_model_info", IF r.thrown = "none" THEN "ok" ELSE r.thrown)
    /\ UNCHANGED data

NextInfo == ReadModelInfo

SpecInfo == InitInfo /\ [][NextInfo]_vars

(***************************************************************************)
(* handle_model.cpp: read_material and read_material_swbf1.                *)
(***************************************************************************)
\* sizeof(Material_info)
SizeofMaterialInfo == 24

\* a & b on unsigned integers.
RECURSIVE BitAnd(_, _)
BitAnd(a, b) ==
    IF a = 0 \/ b = 0
    THEN 0
    ELSE (a % 2) * (b % 2) + 2 * BitAnd(a \div 2, b \div 2)

\* are_flags_set(flags, mask): every bit of the mask is set.
are_flags_set(flags, mask) == BitAnd(flags, mask) = mask

\* static_cast<std::uint8_t> of a u32.
U8(v) == v % 256

\* glm::unpackUnorm4x8: the four bytes of the word, each over 255.
unpackUnorm4x8(bytes) == [over255 |-> bytes]

\* range_convert of the float with these bits from [-1, 1] to [-128, 127],
\* cast to std::uint8_t.
ConvertedParam(bytes) == [range_converted_float |-> bytes]

\* static_cast<float> of an integer.
FloatOf(v) == [float_of |-> v]

\* The default member initialiser of a colour or value of msh::Material.
Unset == [default_initialised |-> TRUE]

\* msh::Material{}
DefaultMaterial ==
    [flags |-> {}, type |-> "normal", type_swbf1 |-> "normal",
     vertex_lighting |-> FALSE, attached_light |-> << >>,
     diffuse_colour |-> Unset, specular_colour |-> Unset,
     specular_value |-> Unset, params |-> <<0, 0>>]

\* A decoder at work on a chunk: the reader's head, the exception thrown if
\* any, the head where the last read began, and the material written so far.
Decoding(h, m) == [head |-> h, thrown |-> "none", at |-> h, m |-> m]

\* What read_material leaves: the exception thrown if any, the reader's head,
\* the dialect decoded and the material.
Decoded(dialect, st) ==
    [thrown |-> st.thrown, head |-> st.head, dialect |-> dialect, m |-> st.m]

\* material.read_trivial<T>() with sizeof(T) = n, unless an exception is on
\* its way already.
Read(d, s, n) ==
    LET After(r) ==
            [s EXCEPT !.head = r.head,
                      !.at = s.head,
                      !.thrown = IF r.outcome = "ok" THEN "none" ELSE r.outcome]
    IN IF s.thrown # "none" THEN s ELSE After(read_trivial(s.head, Len(d), n, FALSE))

\* Two parameters read as floats (detail, scroll): each is stored when its
\* read has succeeded.
ReadParams(d, s) ==
    LET Store(r, k) ==
            IF r.thrown = "none"
            THEN [r EXCEPT !.m.params[k] = ConvertedParam(Slice(d, r.at, 4))]
            ELSE r
    IN Store(Read(d, Store(Read(d, s, 4), 1), 4), 2)

\* if (are_flags_set(flags, mask)) out.flags = set_flags(out.flags, flag);
SetFlagIf(s, flags, mask, flag) ==
    IF s.thrown = "none" /\ are_flags_set(flags, mask)
    THEN [s EXCEPT !.m.flags = @ \cup {flag}]
    ELSE s

\* if (are_flags_set(flags, mask)) out.type_swbf1 = type;
SetSwbf1TypeIf(s, flags, mask, type) ==
    IF s.thrown = "none" /\ are_flags_set(flags, mask)
    THEN [s EXCEPT !.m.type_swbf1 = type]
    ELSE s

\* if (are_flags_set(flags, mask)) out.type = type;
SetTypeIf(s, flags, mask, type) ==
    IF s.thrown = "none" /\ are_flags_set(flags, mask)
    THEN [s EXCEPT !.m.type = type]
    ELSE s

\* The specular fields of a dialect-1 material.
ReadSpecular(d, s) ==
    LET StoreValue(r) ==
            IF r.thrown = "none"
            THEN [r EXCEPT !.m.specular_value = FloatOf(LE32Signed(Slice(d, r.at, 4)))]
            ELSE r
        StoreColour(r) ==
            IF r.thrown = "none"
            THEN [r EXCEPT !.m.specular_colour = unpackUnorm4x8(Slice(d, r.at, 4))]
            ELSE r
    IN StoreColour(Read(d, StoreValue(Read(d, s, 4)), 4))

\* read_material_swbf1 on an MTRL reader over payload d, writing to material m.
\* The steps are in the order of the code; each takes the state the one
\* before it left.
read_material_swbf1(d, m) ==
    LET FlagsOf(s0) == IF s0.thrown = "none" THEN LE32(Slice(d, 0, 4)) ELSE 0
        Specular(s, flags) ==
            IF are_flags_set(flags, 48)
            THEN ReadSpecular(d, SetSwbf1TypeIf(s, flags, 48, "specular"))
            ELSE s
        WithParams(s, flags, mask, type) ==
            IF are_flags_set(flags, mask)
            THEN ReadParams(d, SetSwbf1TypeIf(s, flags, mask, type))
            ELSE s
        Flagged(s0, flags) ==
            LET s1 == SetFlagIf(s0, flags, 2, "hardedged")
                s2 == SetFlagIf(s1, flags, 4, "transparent")
                s4 == Specular(s2, flags)
                s5 == SetFlagIf(s4, flags, 128, "additive")
                s6 == SetSwbf1TypeIf(s5, flags, 256, "glow")
                s8 == WithParams(s6, flags, 512, "detail")
                s10 == WithParams(s8, flags, 1024, "scroll")
                s11 == SetSwbf1TypeIf(s10, flags, 4096, "reflection")
                s12 == SetSwbf1TypeIf(s11, flags, 8192, "camouflage")
            IN SetSwbf1TypeIf(s12, flags, 16384, "refraction")
        From(s0) == Flagged(s0, FlagsOf(s0))
    IN From(Read(d, Decoding(0, m), 4))

\* A mutant of ApplyFlags: transparent set whether or not doublesided is.
ApplyFlags_transparent_anyway(st, flags) ==
    LET s1 == SetFlagIf(st, flags, 2, "hardedged")
        s2 == SetFlagIf(s1, flags, 4, "transparent")
        s3 == SetFlagIf(s2, flags, 16, "glow")
        s4 == SetTypeIf(s3, flags, 32, "bumpmap")
        s5 == SetFlagIf(s4, flags, 64, "additive")
        s6 == SetFlagIf(s5, flags, 128, "specular")
        s7 == SetTypeIf(s6, flags, 256, "env_map")
        s8 == SetTypeIf(s7, flags, 2048, "wireframe")
        s9 == SetFlagIf(s8, flags, 65536, "doublesided")
        s10 == SetTypeIf(s9, flags, 16777216, "scrolling")
        s11 == SetTypeIf(s10, flags, 33554432, "energy")
    IN SetTypeIf(s11, flags, 67108864, "animated")

\* The flags of a dialect-2 material applied in the order of the code.
ApplyFlags(st, flags) ==
    LET s1 == SetFlagIf(st, flags, 2, "hardedged")
        s2 == IF are_flags_set(flags, 4) /\ ~are_flags_set(flags, 65536)
              THEN SetFlagIf(s1, flags, 4, "transparent")
              ELSE s1
        s3 == SetFlagIf(s2, flags, 16, "glow")
        s4 == SetTypeIf(s3, flags, 32, "bumpmap")
        s5 == SetFlagIf(s4, flags, 64, "additive")
        s6 == SetFlagIf(s5, flags, 128, "specular")
        s7 == SetTypeIf(s6, flags, 256, "env_map")
        s8 == SetTypeIf(s7, flags, 2048, "wireframe")
        s9 == SetFlagIf(s8, flags, 65536, "doublesided")
        s10 == SetTypeIf(s9, flags, 16777216, "scrolling")
        s11 == SetTypeIf(s10, flags, 33554432, "energy")
    IN SetTypeIf(s11, flags, 67108864, "animated")

\* The part of read_material that decodes a dialect-2 material.
read_material_swbf2(d, m) ==
    LET FlagsOf(s0) == IF s0.thrown = "none" THEN LE32(Slice(d, 0, 4)) ELSE 0
        Info(s0) ==
            IF s0.thrown = "none"
            THEN [s0 EXCEPT
                     !.m.diffuse_colour = unpackUnorm4x8(Slice(d, 4, 4)),
                     !.m.specular_colour = unpackUnorm4x8(Slice(d, 8, 4)),
                     !.m.specular_value = FloatOf(LE32(Slice(d, 12, 4))),
                     !.m.params = <<U8(LE32(Slice(d, 16, 4))), U8(LE32(Slice(d, 20, 4)))>>]
            ELSE s0
        LengthAt(s1) ==
            IF s1.head <= Len(d) THEN cstring_length(d, s1.head, Len(d) - s1.head) ELSE 0
        StringRead(s1, rs) ==
            IF s1.thrown = "none"
            THEN [s1 EXCEPT !.head = rs.head,
                            !.at = s1.head,
                            !.thrown = IF rs.outcome = "ok" THEN "none" ELSE rs.outcome]
            ELSE s1
        VertexLit(s2, flags) ==
            IF s2.thrown = "none"
            THEN [s2 EXCEPT !.m.vertex_lighting = are_flags_set(flags, 512)]
            ELSE s2
        Attached(s4, flags, at, len) ==
            IF s4.thrown = "none" /\ are_flags_set(flags, 134217728)
            THEN [s4 EXCEPT !.m.attached_light = Slice(d, at, len)]
            ELSE s4
        Named(s2, flags, len) ==
            Attached(ApplyFlags(VertexLit(s2, flags), flags), flags, s2.at, len)
        Measured(s1, flags, len) ==
            Named(StringRead(s1, read_string_of(s1.head, Len(d), len, TRUE)), flags, len)
        Flagged(s1, flags) == Measured(s1, flags, LengthAt(s1))
        From(s0) == Flagged(Info(s0), FlagsOf(s0))
    IN From(Read(d, Decoding(0, m), SizeofMaterialInfo))

\* A mutant of read_material: a chunk of exactly sizeof(Material_info) bytes
\* taken for a dialect-1 material.
read_material_at_most(d, m) ==
    IF Len(d) <= SizeofMaterialInfo
    THEN Decoded(1, read_material_swbf1(d, m))
    ELSE Decoded(2, read_material_swbf2(d, m))

\* A mutant of read_material: chunks of up to 31 bytes taken for dialect-1
\* materials.
read_material_below_32(d, m) ==
    IF Len(d) < 32
    THEN Decoded(1, read_material_swbf1(d, m))
    ELSE Decoded(2, read_material_swbf2(d, m))

\* read_material: the dialect by the size of the chunk.
read_material(d, m) ==
    IF Len(d) < SizeofMaterialInfo
    THEN Decoded(1, read_material_swbf1(d, m))
    ELSE Decoded(2, read_material_swbf2(d, m))

RECURSIVE SumOf(_)
SumOf(S) == IF S = {} THEN 0 ELSE LET x == CHOOSE y \in S : TRUE IN x + SumOf(S \ {x})

\* The bits of Material_flags and of Material_flags_swbf1 that the decoders test.
Dialect2Bits ==
    {2, 4, 16, 32, 64, 128, 256, 512, 2048, 65536, 16777216, 33554432, 67108864, 134217728}
Dialect1Bits == {2, 4, 16, 32, 128, 256, 512, 1024, 4096, 8192, 16384}

\* k words after a flag word: word i holds i.
Words(k) == [i \in 1..(4 * k) |-> IF i % 4 = 1 THEN (i + 3) \div 4 ELSE 0]

\* A Material_info with the given flags, then the NUL-terminated name of a light.
Dialect2Payload(flags, light) ==
    U32Bytes(flags) \o <<10, 20, 30, 40>> \o <<50, 60, 70, 80>> \o U32Bytes(5)
        \o U32Bytes(256 + 7) \o U32Bytes(9) \o [i \in 1..light |-> 76] \o <<0>>

\* The sets of bits a flag word is built from: up to MaxBits of them, or all.
FlagSets(bits) == {B \in SUBSET bits : Cardinality(B) <= MaxBits \/ B = bits}

\* Specular values of a dialect-1 material as bytes: 5, -1, the least int32.
SignedValues == {<<5, 0, 0, 0>>, <<255, 255, 255, 255>>, <<0, 0, 0, 128>>}

MaterialPayloads ==
    {Dialect2Payload(SumOf(B), n) : B \in FlagSets(Dialect2Bits), n \in 0..MaxLight}
    \cup {U32Bytes(SumOf(B)) \o Words(k) : B \in FlagSets(Dialect1Bits), k \in 0..MaxWords}
    \cup {U32Bytes(48 + 512 + 1024) \o Words(k) : k \in 0..MaxWords}
    \cup {U32Bytes(48) \o v \o <<1, 2, 3, 4>> : v \in SignedValues}
    \cup {[i \in 1..k |-> 0] : k \in 0..3}

InitMaterial ==
    /\ data \in MaterialPayloads
    /\ head = 0
    /\ last = Constructed
    /\ out = << >>

ReadMaterial ==
    /\ last.op = "construct"
    /\ \E r \in {read_material(data, DefaultMaterial)} :
          /\ out' = [thrown |-> r.thrown, dialect |-> r.dialect, m |-> r.m]
          /\ head' = r.head
          /\ last' = Called("read_material", IF r.thrown = "none" THEN "ok" ELSE r.thrown)
    /\ UNCHANGED data

NextMaterial == ReadMaterial

SpecMaterial == InitMaterial /\ [][NextMaterial]_vars

(***************************************************************************)
(* handle_model.cpp: read_vertex_strip_ps2.  data is the index buffer      *)
(* (16 bit indices), head is the cursor pos.                               *)
(***************************************************************************)
\* The values of the indices of a buffer: with and without the marker bit.
IndexValues == {0, 3, 32768, 32771, 65535}

IndexBuffers == UNION {[1..n -> IndexValues] : n \in 0..MaxIndices}

\* x & ~(0x8000ui16), stored in a std::uint16_t: the operands are promoted to
\* int and the result keeps its low 16 bits, where the mask is all ones but
\* bit 15.
ClearMarker(x) == BitAnd(x, 65535 - 32768) % 65536

\* (x & 0x8000ui16) == 0x8000ui16
HasMarker(x) == BitAnd(x, 32768) = 32768

\* for (; pos < indices.size(); ++pos) { if (marker) break; push_back; }
RECURSIVE StripTail(_, _, _)
StripTail(indices, pos, strip) ==
    IF pos < Len(indices) /\ ~HasMarker(indices[pos + 1])
    THEN StripTail(indices, pos + 1, Append(strip, indices[pos + 1]))
    ELSE [pos |-> pos, strip |-> strip]

\* A mutant of read_vertex_strip_ps2: a strip may hold a single index.
read_vertex_strip_ps2_of_one(indices, pos) ==
    IF pos >= Len(indices)
    THEN [thrown |-> "InvalidIndexBuffer", pos |-> pos, strip |-> << >>]
    ELSE LET t == StripTail(indices, pos + 1, <<ClearMarker(indices[pos + 1])>>)
         IN [thrown |-> "none", pos |-> t.pos, strip |-> t.strip]

\* read_vertex_strip_ps2(indices, pos): the strip returned and the cursor
\* left, or the std::out_of_range thrown.
read_vertex_strip_ps2(indices, pos) ==
    IF pos + 1 >= Len(indices)
    THEN [thrown |-> "InvalidIndexBuffer", pos |-> pos, strip |-> << >>]
    ELSE LET t == StripTail(indices, pos + 2,
                            <<ClearMarker(indices[pos + 1]), ClearMarker(indices[pos + 2])>>)
         IN [thrown |-> "none", pos |-> t.pos, strip |-> t.strip]

\* A call of an operation at a cursor or head, and how it ended.
CalledAt(op, h0, outcome) ==
    [op |-> op, h0 |-> h0, n |-> 0, unaligned |-> FALSE, tag |-> 0,
     outcome |-> outcome, child |-> NoChild, len |-> 0]

\* Any index buffer, and a cursor anywhere in it or just past its end.
InitStrip ==
    /\ data \in IndexBuffers
    /\ head \in 0..(Len(data) + 1)
    /\ last = Constructed
    /\ out = << >>

ReadVertexStripPs2 ==
    LET r == read_vertex_strip_ps2(data, head)
    IN /\ head' = r.pos
       /\ out' = [thrown |-> r.thrown, strip |-> r.strip]
       /\ last' = CalledAt("read_vertex_strip_ps2", head,
                           IF r.thrown = "none" THEN "ok" ELSE r.thrown)
       /\ UNCHANGED data

NextStrip == ReadVertexStripPs2

SpecStrip == InitStrip /\ [][NextStrip]_vars

(***************************************************************************)
(* handle_unknown.cpp.  Workers call handle_unknown, each on a chunk of    *)
(* its own, with or without a file name; the calls share chunk_count, the  *)
(* static std::atomic_int64_t of get_unique_chunk_name.  The state of the  *)
(* calls is out; data and head are not used.                               *)
(***************************************************************************)
Workers == 1..MaxWorkers

\* std::to_string of a number that is not negative: its decimal digits, as
\* characters.
RECURSIVE to_string(_)
to_string(n) == IF n < 10 THEN <<48 + n>> ELSE to_string(n \div 10) \o <<48 + (n % 10)>>

\* A mutant of fetch_add: the sum is not stored.
fetch_add_not_stored(counter, arg) == [returned |-> counter, stored |-> counter]

\* std::atomic::fetch_add(arg): one indivisible step that returns the value
\* held before and stores the sum.
fetch_add(counter, arg) == [returned |-> counter, stored |-> counter + arg]

\* The string get_unique_chunk_name builds around the number it was given.
ChunkName(number) == <<"chunk_", to_string(number), ".munged">>

\* The file name a caller supplies.
SuppliedName(w) == <<"supplied", to_string(w)>>

InitUnknown ==
    /\ data = << >>
    /\ head = 0
    /\ last = Constructed
    /\ out = [chunk_count |-> 0,
              pc |-> [w \in Workers |-> "idle"],
              file_name |-> [w \in Workers |-> << >>],
              calls |-> [w \in Workers |-> 0],
              handed |-> << >>,
              saved |-> {}]

\* handle_unknown is entered and builds the file in its buffer.
EnterHandleUnknown(w) ==
    /\ out.pc[w] = "idle"
    /\ out.calls[w] < MaxCalls
    /\ \E supplied \in BOOLEAN :
          out' = [out EXCEPT !.pc[w] = IF supplied THEN "save" ELSE "name",
                             !.file_name[w] = IF supplied THEN SuppliedName(w) ELSE << >>,
                             !.calls[w] = @ + 1]
    /\ last' = CalledAt("handle_unknown", w, "ok")
    /\ UNCHANGED <<data, head>>

\* get_unique_chunk_name, called when no file name was supplied.
GetUniqueChunkName(w) ==
    /\ out.pc[w] = "name"
    /\ LET r == fetch_add(out.chunk_count, 1)
       IN out' = [out EXCEPT !.chunk_count = r.stored,
                             !.pc[w] = "save",
                             !.file_name[w] = ChunkName(r.returned),
                             !.handed = Append(@, r.returned)]
    /\ last' = CalledAt("get_unique_chunk_name", w, "ok")
    /\ UNCHANGED <<data, head>>

\* file_saver.save_file(file, name, "munged")
SaveFile(w) ==
    /\ out.pc[w] = "save"
    /\ out' = [out EXCEPT !.pc[w] = "idle",
                          !.file_name[w] = << >>,
                          !.saved = @ \cup {out.file_name[w]}]
    /\ last' = CalledAt("save_file", w, "ok")
    /\ UNCHANGED <<data, head>>

NextUnknown ==
    \E w \in Workers :
        \/ EnterHandleUnknown(w)
        \/ GetUniqueChunkName(w)
        \/ SaveFile(w)

SpecUnknown == InitUnknown /\ [][NextUnknown]_vars

(***************************************************************************)
(* Chunks as bytes: what the decoders below are given.                     *)
(***************************************************************************)
\* The zero bytes between the end of a payload of n bytes and the next four
\* byte margin.
Padding(n) == [i \in 1..((4 - (n % 4)) % 4) |-> 0]

\* A chunk: magic number, size, payload, padding.
Chunk(mn, payload) ==
    ChunkHeader(mn, Len(payload)) \o payload \o Padding(Len(payload))

\* The chunks of a sequence one after the other.
RECURSIVE ChunksOf(_)
ChunksOf(cs) == IF cs = << >> THEN << >> ELSE Chunk(cs[1].mn, cs[1].payload) \o ChunksOf(Tail(cs))

\* A child to be: its magic number and its payload.
Kid(mn, payload) == [mn |-> mn, payload |-> payload]

\* A string and its NUL.
CString(s) == s \o <<0>>

\* The payload of the child that a read_child at head h of d returned.
ChildPayload(d, h, child) == Slice(d, h + HeaderSize, child.size)

\* reader.read_string() at head h of a reader over payload p: how it ended,
\* the string and the head it leaves.
ReadStringAt(p, h) ==
    LET StringOf(len, r) ==
            [outcome |-> r.outcome,
             value |-> IF r.outcome = "ok" THEN Slice(p, h, len) ELSE << >>,
             head |-> r.head]
        Measured(len) == StringOf(len, read_string_of(h, Len(p), len, FALSE))
    IN Measured(IF h <= Len(p) THEN cstring_length(p, h, Len(p) - h) ELSE 0)

(***************************************************************************)
(* handle_object.cpp.  A std::string under construction is the sequence of *)
(* the pieces appended to it: literals of the code, strings of the chunk   *)
(* and names looked up for a hash.                                         *)
(***************************************************************************)
BASE_mn == LE32(<<66, 65, 83, 69>>)
TYPE_mn == LE32(<<84, 89, 80, 69>>)
PROP_mn == LE32(<<80, 82, 79, 80>>)

\* 0x47c86b4a
geometry_name_hash == 1204317002

Lit(s) == [lit |-> s]
Chars(s) == [chars |-> s]

\* lookup_fnv_hash(hash): the name the hash table has for the hash.
lookup_fnv_hash(hash) == [name_of_hash |-> hash]

write_bracketed_str(what, to) == to \o <<Lit("[")>> \o what \o <<Lit("]\n\n")>>

write_property(first, second, to) ==
    to \o first \o <<Lit(" = \"")>> \o second \o <<Lit("\"\n")>>

\* One turn of the loop of get_properties on the reader s.head of d: the
\* PROP child, its hash, its value; an exception of any of them ends the turn.
\* The reader is past the PROP child once it is read, whether or not the hash
\* and the value can be read from it.
GetProperty(d, s) ==
    LET Valued(r, p, value) ==
            IF value.outcome # "ok"
            THEN [s EXCEPT !.head = r.head, !.thrown = value.outcome]
            ELSE [s EXCEPT !.head = r.head,
                           !.properties =
                               Append(@, [first |-> LE32(Slice(p, 0, 4)),
                                          second |-> value.value])]
        Hashed(r, p, hash) ==
            IF hash.outcome # "ok"
            THEN [s EXCEPT !.head = r.head, !.thrown = hash.outcome]
            ELSE Valued(r, p, ReadStringAt(p, hash.head))
        OfChild(r, p) == Hashed(r, p, read_trivial(0, Len(p), 4, FALSE))
        Property(r) ==
            IF r.outcome # "ok" THEN [s EXCEPT !.thrown = r.outcome]
            ELSE OfChild(r, ChildPayload(d, s.head, r.child))
    IN Property(read_child_strict(d, s.head, PROP_mn, FALSE))

\* get_properties: while (object) { ... }
RECURSIVE get_properties(_, _)
get_properties(d, s) ==
    IF s.thrown # "none" \/ ~Truthy(s.head, Len(d))
    THEN s
    ELSE get_properties(d, GetProperty(d, s))

\* A mutant of find_geometry_name: the last property of the hash is taken.
find_geometry_name_last(properties) ==
    LET found == {i \in 1..Len(properties) : properties[i].first = geometry_name_hash}
    IN IF found = {}
       THEN [has_value |-> FALSE, value |-> << >>]
       ELSE LET result == CHOOSE i \in found : \A j \in found : i >= j
            IN [has_value |-> TRUE,
                value |-> <<Chars(properties[result].second), Lit(".msh")>>]

\* find_geometry_name: std::find_if for the first property of the hash.
find_geometry_name(properties) ==
    LET found == {i \in 1..Len(properties) : properties[i].first = geometry_name_hash}
    IN IF found = {}
       THEN [has_value |-> FALSE, value |-> << >>]
       ELSE LET result == CHOOSE i \in found : \A j \in found : i <= j
            IN [has_value |-> TRUE,
                value |-> <<Chars(properties[result].second), Lit(".msh")>>]

\* for (const auto& property : properties) write_property(...)
RECURSIVE WriteProperties(_, _)
WriteProperties(properties, to) ==
    IF properties = << >>
    THEN to
    ELSE WriteProperties(Tail(properties),
                         write_property(<<lookup_fnv_hash(properties[1].first)>>,
                                        <<Chars(properties[1].second)>>, to))

\* What handle_object has done: the exception that left it, if any, and the
\* calls of save_file it made.
ObjectResult(thrown, saved) == [thrown |-> thrown, saved |-> saved]

\* handle_object(object, file_saver, type) on an object reader over d: the
\* reads in the order of the code, each after the one before it has
\* succeeded, then the buffer and the call of save_file.
handle_object(d, type) ==
    LET Named(geom_name, buffer) ==
            IF geom_name.has_value
            THEN write_property(<<Lit("GeometryName")>>, geom_name.value, buffer)
            ELSE buffer
        Buffer(class_name, properties) ==
            WriteProperties(
                properties,
                write_bracketed_str(
                    <<Lit("Properties")>>,
                    Named(find_geometry_name(properties),
                          write_property(<<Lit("ClassLabel")>>, <<Chars(class_name)>>,
                                         write_bracketed_str(type, << >>)))
                        \o <<Lit("\n")>>))
        Got(class_name, odf_name, got) ==
            IF got.thrown # "none" THEN ObjectResult(got.thrown, << >>)
            ELSE ObjectResult("none",
                              <<[contents |-> Buffer(class_name.value, got.properties),
                                 directory |-> Lit("odf"),
                                 name |-> Chars(odf_name.value),
                                 extension |-> Lit(".odf")]>>)
        OdfNamed(class_name, typ, odf_name) ==
            IF odf_name.outcome # "ok" THEN ObjectResult(odf_name.outcome, << >>)
            ELSE Got(class_name, odf_name,
                     get_properties(d, [head |-> typ.head, thrown |-> "none",
                                        properties |-> << >>]))
        Typed(base, class_name, typ) ==
            IF typ.outcome # "ok" THEN ObjectResult(typ.outcome, << >>)
            ELSE OdfNamed(class_name, typ,
                          ReadStringAt(ChildPayload(d, base.head, typ.child), 0))
        Classed(base, class_name) ==
            IF class_name.outcome # "ok" THEN ObjectResult(class_name.outcome, << >>)
            ELSE Typed(base, class_name, read_child_strict(d, base.head, TYPE_mn, FALSE))
        Based(base) ==
            IF base.outcome # "ok" THEN ObjectResult(base.outcome, << >>)
            ELSE Classed(base, ReadStringAt(ChildPayload(d, 0, base.child), 0))
    IN Based(read_child_strict(d, 0, BASE_mn, FALSE))

\* The strings of the chunks of an object: of no character, of one, of three.
ObjectStrings == {<< >>, <<97>>, <<98, 99, 100>>}

\* A hash that is not the hash of GeometryName.
OtherHash == 305419896

PropPayloads ==
    {U32Bytes(h) \o CString(v) : h \in {geometry_name_hash, OtherHash}, v \in ObjectStrings}

\* The object chunks: BASE, TYPE, then PROP children; and chunks that are
\* not of this form: TYPE in front of BASE, a PROP whose string has no NUL,
\* a PROP too short for its hash.
ObjectPayloads ==
    {ChunksOf(<<Kid(BASE_mn, CString(b)), Kid(TYPE_mn, CString(t))>>
              \o [i \in 1..Len(ps) |-> Kid(PROP_mn, ps[i])]) :
        b \in {<< >>, <<97>>}, t \in {<<116>>, <<116, 121>>},
        ps \in UNION {[1..n -> PropPayloads] : n \in 0..MaxProps}}
    \cup {ChunksOf(<<Kid(TYPE_mn, CString(<<116>>)), Kid(BASE_mn, CString(<<97>>))>>),
          ChunksOf(<<Kid(BASE_mn, CString(<<97>>)), Kid(TYPE_mn, CString(<<116>>)),
                     Kid(PROP_mn, U32Bytes(OtherHash) \o <<97>>)>>),
          ChunksOf(<<Kid(BASE_mn, CString(<<97>>)), Kid(TYPE_mn, CString(<<116>>)),
                     Kid(PROP_mn, <<1, 2>>), Kid(PROP_mn, U32Bytes(OtherHash) \o <<0>>)>>)}

\* The type the caller names the object by.
ObjectType == <<Lit("GameObjectClass")>>

InitObject ==
    /\ data \in ObjectPayloads
    /\ head = 0
    /\ last = Constructed
    /\ out = << >>

HandleObject ==
    /\ last.op = "construct"
    /\ \E r \in {handle_object(data, ObjectType)} :
          /\ out' = r
          /\ last' = Called("handle_object", IF r.thrown = "none" THEN "ok" ELSE r.thrown)
    /\ UNCHANGED <<data, head>>

NextObject == HandleObject

SpecObject == InitObject /\ [][NextObject]_vars

(***************************************************************************)
(* handle_model.cpp: the children of a segment.  msh::Model is the record  *)
(* below; material is the part of msh::Material that read_material writes, *)
(* material_name and material_textures are material.name and               *)
(* material.textures.                                                      *)
(***************************************************************************)
MTRL_mn == LE32(<<77, 84, 82, 76>>)
RTYP_mn == LE32(<<82, 84, 89, 80>>)
MNAM_mn == LE32(<<77, 78, 65, 77>>)
TNAM_mn == LE32(<<84, 78, 65, 77>>)
IBUF_mn == LE32(<<73, 66, 85, 70>>)
VBUF_mn == LE32(<<86, 66, 85, 70>>)
BNAM_mn == LE32(<<66, 78, 65, 77>>)
BMAP_mn == LE32(<<66, 77, 65, 80>>)
INFO_mn == LE32(<<73, 78, 70, 79>>)
STRP_mn == LE32(<<83, 84, 82, 80>>)
POSI_mn == LE32(<<80, 79, 83, 73>>)
NORM_mn == LE32(<<78, 79, 82, 77>>)
TEX0_mn == LE32(<<84, 69, 88, 48>>)
COL0_mn == LE32(<<67, 79, 76, 48>>)
BONE_mn == LE32(<<66, 79, 78, 69>>)
segm_mn == LE32(<<115, 101, 103, 109>>)
NAME_mn == LE32(<<78, 65, 77, 69>>)
VRTX_mn == LE32(<<86, 82, 84, 88>>)
NODE_mn == LE32(<<78, 79, 68, 69>>)
\* A magic number that no decoder knows.
XXXX_mn == LE32(<<88, 88, 88, 88>>)

Refraction_sv == <<82, 101, 102, 114, 97, 99, 116, 105, 111, 110>>
Bump_sv == <<66, 117, 109, 112>>
Water_sv == <<87, 97, 116, 101, 114>>

\* msh::Model{}
DefaultModel ==
    [lod |-> "zero", name |-> << >>, parent |-> << >>,
     material |-> DefaultMaterial, material_name |-> << >>,
     material_textures |-> <<<< >>, << >>, << >>, << >>>>,
     strips |-> << >>, positions |-> << >>, normals |-> << >>,
     texture_coords |-> << >>, colours |-> << >>, skin |-> << >>,
     bone_map |-> << >>, pretransformed |-> FALSE, vbufs |-> << >>, vertices |-> << >>]

\* What a decoder of a child leaves: the exception thrown, if any, and the
\* model.
Decodes(model) == [thrown |-> "none", model |-> model]
Throws(e, model) == [thrown |-> e, model |-> model]

\* reader.read_trivial<std::uint32_t>() at head h of a reader over p.
ReadU32At(p, h) ==
    LET U32Of(r) ==
            [outcome |-> r.outcome,
             value |-> IF r.outcome = "ok" THEN LE32(Slice(p, h, 4)) ELSE 0,
             head |-> r.head]
    IN U32Of(read_trivial(h, Len(p), 4, FALSE))

\* reader.read_array<T>(count) at head h of a reader over p, sizeof(T) = n:
\* the bytes of the elements, element by element.
ReadArrayAt(p, h, n, count) ==
    LET ArrayOf(r) ==
            [outcome |-> r.outcome,
             value |-> IF r.outcome = "ok"
                       THEN [i \in 1..count |-> Slice(p, h + n * (i - 1), n)]
                       ELSE << >>,
             head |-> r.head]
    IN ArrayOf(read_array(h, Len(p), n, count, FALSE))

\* The std::uint16_t of two bytes.
LE16(b) == b[1] + 256 * b[2]

\* read_material on the MTRL child of a segment.
ReadMaterialOf(p, m) ==
    LET MaterialOf(r) == [thrown |-> r.thrown, model |-> [m EXCEPT !.material = r.m]]
    IN MaterialOf(read_material(p, m.material))

\* read_render_type (PC and Xbox).
read_render_type(p, m) ==
    LET Typed(type) ==
            IF type.outcome # "ok" THEN Throws(type.outcome, m)
            ELSE IF type.value = Refraction_sv
                 THEN Decodes([m EXCEPT !.material.type = "refraction"])
            ELSE IF type.value = Bump_sv
                 THEN IF m.material.type_swbf1 = "specular"
                      THEN Decodes([m EXCEPT !.material.type_swbf1 = "bumpmap_specular"])
                      ELSE Decodes([m EXCEPT !.material.type_swbf1 = "bumpmap"])
            ELSE IF type.value = Water_sv
                 THEN Decodes([m EXCEPT !.material.type_swbf1 = "water"])
            ELSE Decodes(m)
    IN Typed(ReadStringAt(p, 0))

\* The RTYP child of a PS2 segment: the type is the number read.
ReadRenderTypePs2(p, m) ==
    LET Typed(type) ==
            IF type.outcome # "ok" THEN Throws(type.outcome, m)
            ELSE Decodes([m EXCEPT !.material.type = [render_type |-> type.value]])
    IN Typed(ReadU32At(p, 0))

read_material_name(p, m) ==
    LET Named(name) ==
            IF name.outcome # "ok" THEN Throws(name.outcome, m)
            ELSE Decodes([m EXCEPT !.material_name = name.value, !.name = name.value])
    IN Named(ReadStringAt(p, 0))

\* read_texture_name is noexcept: an exception of its reads ends the program.
read_texture_name(p, m) ==
    LET Named(index, name) ==
            IF name.outcome # "ok" THEN Throws("terminate", m)
            ELSE IF index.value < 4
                 THEN Decodes([m EXCEPT !.material_textures[index.value + 1] = name.value])
                 ELSE Decodes(m)
        Indexed(index) ==
            IF index.outcome # "ok" THEN Throws("terminate", m)
            ELSE Named(index, ReadStringAt(p, index.head))
    IN Indexed(ReadU32At(p, 0))

\* The std::uint16_t elements of an array read, or how the read ended.
IndicesRead(indices) ==
    IF indices.outcome # "ok" THEN [outcome |-> indices.outcome, value |-> << >>]
    ELSE [outcome |-> "ok",
          value |-> [i \in 1..Len(indices.value) |-> LE16(indices.value[i])]]

read_index_buffer(p) ==
    LET Counted(indices_count) ==
            IF indices_count.outcome # "ok"
            THEN [outcome |-> indices_count.outcome, value |-> << >>]
            ELSE IndicesRead(ReadArrayAt(p, indices_count.head, 2, indices_count.value))
    IN Counted(ReadU32At(p, 0))

\* model.strips.emplace_back() = ...: the right side is evaluated first, so a
\* read that throws leaves the strips as they were.
StripOf(r, m) ==
    IF r.outcome # "ok" THEN Throws(r.outcome, m)
    ELSE Decodes([m EXCEPT !.strips = Append(@, r.value)])

ReadIndexBufferOf(p, m) == StripOf(read_index_buffer(p), m)

\* A mutant of read_strip_buffer: the marker bit of the indices cleared.
read_strip_buffer_unmarked(p, index_count) ==
    LET Unmarked(r) == [r EXCEPT !.value = [i \in 1..Len(@) |-> @[i] % 32768]]
    IN Unmarked(IndicesRead(ReadArrayAt(p, 0, 2, index_count)))

read_strip_buffer(p, index_count) == IndicesRead(ReadArrayAt(p, 0, 2, index_count))

ReadStripBufferOf(p, index_count, m) == StripOf(read_strip_buffer(p, index_count), m)

read_bone_map(p) ==
    LET BonesOf(bones) ==
            IF bones.outcome # "ok" THEN [outcome |-> bones.outcome, value |-> << >>]
            ELSE [outcome |-> "ok",
                  value |-> [i \in 1..Len(bones.value) |-> bones.value[i][1]]]
        Counted(count) ==
            IF count.outcome # "ok" THEN [outcome |-> count.outcome, value |-> << >>]
            ELSE BonesOf(ReadArrayAt(p, count.head, 1, count.value))
    IN Counted(ReadU32At(p, 0))

ReadBoneMapOf(p, m, ps2) ==
    LET Mapped(r) ==
            IF r.outcome # "ok" THEN Throws(r.outcome, m)
            ELSE Decodes([m EXCEPT !.bone_map = r.value,
                                   !.pretransformed = IF ps2 THEN TRUE ELSE @])
    IN Mapped(read_bone_map(p))

ReadParentOf(p, m) ==
    LET Named(name) ==
            IF name.outcome # "ok" THEN Throws(name.outcome, m)
            ELSE Decodes([m EXCEPT !.parent = name.value])
    IN Named(ReadStringAt(p, 0))

\* The sizes of the elements of the attribute buffers of a PS2 segment.
SizeofPosition == 6
SizeofNormal == 3
SizeofUv == 4
SizeofColour == 4
SizeofBone == 1

\* read_positions_buffer, read_normals_buffer, read_uv_buffer,
\* read_colour_buffer, read_skin_buffer: vertex_count elements read as an
\* array, each converted; the conversion is kept as the name of the decoder
\* and the bytes (and box) it is applied to.
ReadAttributesOf(p, vertex_count, n, decoder, box) ==
    LET Converted(r) ==
            [outcome |-> r.outcome,
             value |-> [i \in 1..Len(r.value) |->
                           [decoder |-> decoder, of |-> r.value[i], box |-> box]]]
    IN Converted(ReadArrayAt(p, 0, n, vertex_count))

\* The header of a VBUF: vertex_count, stride and flags, a u32 each.
VbufHeaderSize == 12

\* vbufs.emplace_back(child): process_segment_pc collects its VBUF children;
\* the vector is kept with the model under construction.
CollectVbuf(p, m) == Decodes([m EXCEPT !.vbufs = Append(@, p)])

\* read_vbuf and read_vbuf_xbox are decoders of another file.  Each VBUF
\* begins with its header, read by the rules of the reader; what is decoded
\* from the vertex records is kept as the payloads and the name of the decoder.
VerticesOf(decoder, p) == [decoder |-> decoder, of |-> p]

read_vbuf(vbufs, m) ==
    IF \E i \in 1..Len(vbufs) : Len(vbufs[i]) < VbufHeaderSize
    THEN Throws("BoundsViolation", m)
    ELSE Decodes([m EXCEPT !.vertices =
                               [i \in 1..Len(vbufs) |-> VerticesOf("read_vbuf", vbufs[i])]])

read_vbuf_xbox(p, m) ==
    IF Len(p) < VbufHeaderSize
    THEN Throws("BoundsViolation", m)
    ELSE Decodes([m EXCEPT !.vertices = Append(@, VerticesOf("read_vbuf_xbox", p))])

(***************************************************************************)
(* handle_model.cpp: process_segment_pc, process_segment_xbox and          *)
(* process_segment_ps2.  A processor at work is the head of the segm       *)
(* reader, the exception on its way if any, the model, and on PS2 the two  *)
(* counts of the INFO child.                                               *)
(***************************************************************************)
Processing(h, model) ==
    [head |-> h, thrown |-> "none", model |-> model, vertex_count |-> 0, index_count |-> 0]

\* A mutant of ChildOfPc: a child of another magic number is an error.
ChildOfPc_rejects_unknown(mn, p, m) ==
    IF mn = MTRL_mn THEN ReadMaterialOf(p, m)
    ELSE IF mn = RTYP_mn THEN read_render_type(p, m)
    ELSE IF mn = MNAM_mn THEN read_material_name(p, m)
    ELSE IF mn = TNAM_mn THEN read_texture_name(p, m)
    ELSE IF mn = IBUF_mn THEN ReadIndexBufferOf(p, m)
    ELSE IF mn = VBUF_mn THEN CollectVbuf(p, m)
    ELSE IF mn = BNAM_mn THEN ReadParentOf(p, m)
    ELSE IF mn = BMAP_mn THEN ReadBoneMapOf(p, m, FALSE)
    ELSE Throws("UnexpectedMagic", m)

\* The if / else if chain of process_segment_pc on a child of magic number
\* mn and payload p.
ChildOfPc(mn, p, m) ==
    IF mn = MTRL_mn THEN ReadMaterialOf(p, m)
    ELSE IF mn = RTYP_mn THEN read_render_type(p, m)
    ELSE IF mn = MNAM_mn THEN read_material_name(p, m)
    ELSE IF mn = TNAM_mn THEN read_texture_name(p, m)
    ELSE IF mn = IBUF_mn THEN ReadIndexBufferOf(p, m)
    ELSE IF mn = VBUF_mn THEN CollectVbuf(p, m)
    ELSE IF mn = BNAM_mn THEN ReadParentOf(p, m)
    ELSE IF mn = BMAP_mn THEN ReadBoneMapOf(p, m, FALSE)
    ELSE Decodes(m)

\* The chain of process_segment_xbox.
ChildOfXbox(mn, p, m) ==
    IF mn = MTRL_mn THEN ReadMaterialOf(p, m)
    ELSE IF mn = RTYP_mn THEN read_render_type(p, m)
    ELSE IF mn = MNAM_mn THEN read_material_name(p, m)
    ELSE IF mn = TNAM_mn THEN read_texture_name(p, m)
    ELSE IF mn = IBUF_mn THEN ReadIndexBufferOf(p, m)
    ELSE IF mn = VBUF_mn THEN read_vbuf_xbox(p, m)
    ELSE IF mn = BNAM_mn THEN ReadParentOf(p, m)
    ELSE IF mn = BMAP_mn THEN ReadBoneMapOf(p, m, FALSE)
    ELSE Decodes(m)

\* An attribute buffer of a PS2 segment stored in a field of the model.
Stored(r, m, field) ==
    IF r.outcome # "ok" THEN Throws(r.outcome, m)
    ELSE Decodes([m EXCEPT ![field] = r.value])

\* The chain of process_segment_ps2.
ChildOfPs2(mn, p, m, vertex_count, index_count, vertex_box) ==
    IF mn = MTRL_mn THEN ReadMaterialOf(p, m)
    ELSE IF mn = RTYP_mn THEN ReadRenderTypePs2(p, m)
    ELSE IF mn = MNAM_mn THEN read_material_name(p, m)
    ELSE IF mn = TNAM_mn THEN read_texture_name(p, m)
    ELSE IF mn = STRP_mn THEN ReadStripBufferOf(p, index_count, m)
    ELSE IF mn = POSI_mn
         THEN Stored(ReadAttributesOf(p, vertex_count, SizeofPosition,
                                      "read_positions_buffer", vertex_box), m, "positions")
    ELSE IF mn = NORM_mn
         THEN Stored(ReadAttributesOf(p, vertex_count, SizeofNormal,
                                      "read_normals_buffer", << >>), m, "normals")
    ELSE IF mn = TEX0_mn
         THEN Stored(ReadAttributesOf(p, vertex_count, SizeofUv,
                                      "read_uv_buffer", << >>), m, "texture_coords")
    ELSE IF mn = COL0_mn
         THEN Stored(ReadAttributesOf(p, vertex_count, SizeofColour,
                                      "read_colour_buffer", << >>), m, "colours")
    ELSE IF mn = BMAP_mn THEN ReadBoneMapOf(p, m, TRUE)
    ELSE IF mn = BONE_mn
         THEN Stored(ReadAttributesOf(p, vertex_count, SizeofBone,
                                      "read_skin_buffer", << >>), m, "skin")
    ELSE IF mn = BNAM_mn THEN ReadParentOf(p, m)
    ELSE Decodes(m)

\* A mutant of AfterChild: the head of the segm reader stays where it was.
AfterChild_keeps_head(s, r, c) ==
    IF r.outcome # "ok" THEN [s EXCEPT !.thrown = r.outcome]
    ELSE [s EXCEPT !.thrown = c.thrown, !.model = c.model]

\* The processor after a turn of its loop: r is what segment.read_child()
\* returned and c what the chain made of the child.
AfterChild(s, r, c) ==
    IF r.outcome # "ok" THEN [s EXCEPT !.thrown = r.outcome]
    ELSE [s EXCEPT !.head = r.head, !.thrown = c.thrown, !.model = c.model]

\* The chain of each processor on the child that read_child returned as r.
DispatchPc(d, s, r) ==
    AfterChild(s, r, ChildOfPc(r.child.mn, ChildPayload(d, s.head, r.child), s.model))

DispatchXbox(d, s, r) ==
    AfterChild(s, r, ChildOfXbox(r.child.mn, ChildPayload(d, s.head, r.child), s.model))

DispatchPs2(d, s, vertex_box, r) ==
    AfterChild(s, r, ChildOfPs2(r.child.mn, ChildPayload(d, s.head, r.child), s.model,
                                s.vertex_count, s.index_count, vertex_box))

\* One turn of `while (segment) { const auto child = segment.read_child(); ... }`
\* of each processor, on the segm payload d.
SegmentChildPc(d, s) == DispatchPc(d, s, read_child(d, s.head, FALSE))

SegmentChildXbox(d, s) == DispatchXbox(d, s, read_child(d, s.head, FALSE))

SegmentChildPs2(d, s, vertex_box) ==
    DispatchPs2(d, s, vertex_box, read_child(d, s.head, FALSE))

\* while (segment) { ... } of each processor.
RECURSIVE SegmentChildrenPc(_, _)
SegmentChildrenPc(d, s) ==
    IF s.thrown # "none" \/ ~Truthy(s.head, Len(d))
    THEN s
    ELSE SegmentChildrenPc(d, SegmentChildPc(d, s))

RECURSIVE SegmentChildrenXbox(_, _)
SegmentChildrenXbox(d, s) ==
    IF s.thrown # "none" \/ ~Truthy(s.head, Len(d))
    THEN s
    ELSE SegmentChildrenXbox(d, SegmentChildXbox(d, s))

RECURSIVE SegmentChildrenPs2(_, _, _)
SegmentChildrenPs2(d, s, vertex_box) ==
    IF s.thrown # "none" \/ ~Truthy(s.head, Len(d))
    THEN s
    ELSE SegmentChildrenPs2(d, SegmentChildPs2(d, s, vertex_box), vertex_box)

\* What a processor has done: the exception that left it, if any, and the
\* models it gave to builder.add_model.
Processed(st) ==
    [thrown |-> st.thrown, added |-> IF st.thrown = "none" THEN <<st.model>> ELSE << >>]

\* read_vbuf(vbufs, model, &model.pretransformed) after the loop of
\* process_segment_pc.
AfterVbufs(st, c) == [st EXCEPT !.thrown = c.thrown, !.model = c.model]

ReadVbufs(st) ==
    IF st.thrown # "none" THEN st
    ELSE AfterVbufs(st, read_vbuf(st.model.vbufs, st.model))

\* process_segment_pc on a segm reader over d.
process_segment_pc(d, lod, model_info) ==
    Processed(ReadVbufs(SegmentChildrenPc(d, Processing(0, [DefaultModel EXCEPT
                                                               !.lod = lod]))))

process_segment_xbox(d, lod, model_info) ==
    Processed(SegmentChildrenXbox(d, Processing(0, [DefaultModel EXCEPT !.lod = lod])))

\* The INFO child that process_segment_ps2 reads first, and its two counts.
\* The segm reader is past the child once it is read, whether or not the
\* counts can be read from it.
SegmentInfoPs2(d, s) ==
    LET Counted(info, vertex_count, index_count) ==
            IF index_count.outcome # "ok"
            THEN [s EXCEPT !.head = info.head, !.thrown = index_count.outcome]
            ELSE [s EXCEPT !.head = info.head,
                           !.vertex_count = vertex_count.value,
                           !.index_count = index_count.value]
        Vertices(info, p, vertex_count) ==
            IF vertex_count.outcome # "ok"
            THEN [s EXCEPT !.head = info.head, !.thrown = vertex_count.outcome]
            ELSE Counted(info, vertex_count, ReadU32At(p, vertex_count.head))
        InfoOf(info, p) == Vertices(info, p, ReadU32At(p, 0))
        Got(info) ==
            IF info.outcome # "ok" THEN [s EXCEPT !.thrown = info.outcome]
            ELSE InfoOf(info, ChildPayload(d, s.head, info.child))
    IN Got(read_child_strict(d, s.head, INFO_mn, FALSE))

process_segment_ps2(d, lod, model_info) ==
    Processed(SegmentChildrenPs2(d,
                                 SegmentInfoPs2(d, Processing(0, [DefaultModel EXCEPT
                                                                     !.lod = lod])),
                                 model_info.vertex_box))

\* std::invoke(segm_processor, ...)
Invoke(segm_processor, d, lod, model_info) ==
    IF segm_processor = "pc" THEN process_segment_pc(d, lod, model_info)
    ELSE IF segm_processor = "xbox" THEN process_segment_xbox(d, lod, model_info)
    ELSE process_segment_ps2(d, lod, model_info)

Platforms == {"pc", "xbox", "ps2"}

(***************************************************************************)
(* handle_model.cpp: handle_model_impl.  msh::Builders_map is a function   *)
(* from names to builders; a builder is the sequence of the calls made on  *)
(* it.                                                                     *)
(***************************************************************************)
\* msh::Builder{}
DefaultBuilder == [calls |-> << >>]

set_bbox(builder, bbox) ==
    [builder EXCEPT !.calls = Append(@, [op |-> "set_bbox", bbox |-> bbox])]

add_model(builder, model) ==
    [builder EXCEPT !.calls = Append(@, [op |-> "add_model", model |-> model])]

\* builder.add_model for each of the models, in order.
RECURSIVE AddModels(_, _)
AddModels(builder, models) ==
    IF models = << >> THEN builder
    ELSE AddModels(add_model(builder, Head(models)), Tail(models))

\* Model_info as read_model_info returns it, of the INFO payload p.
ModelInfoOf(p, info) ==
    [vertex_box |-> Slice(p, info.starts[2], SizeofBox),
     visibility_box |-> Slice(p, info.starts[3], SizeofBox),
     face_count |-> info.face_count]

\* create_bbox: centre and size are half the sum and half the absolute
\* difference of the two corners of the vertex box.
create_bbox(model_info) ==
    [centre |-> [half_sum_of |-> model_info.vertex_box],
     size |-> [half_abs_difference_of |-> model_info.vertex_box]]

\* builders[name]: the builder of the name, made if there is none.
BuilderOf(builders, name) ==
    IF name \in DOMAIN builders THEN builders[name] ELSE DefaultBuilder

\* The map with the builder of the name replaced.
WithBuilder(builders, name, builder) ==
    [n \in DOMAIN builders \cup {name} |-> IF n = name THEN builder ELSE builders[n]]

\* handle_model_impl at work after builders[name]: the head of the model
\* reader, the exception on its way if any, and the builder.
Driving(h, builder) == [head |-> h, thrown |-> "none", builder |-> builder]

\* The driver after a turn of its loop: r is what model.read_child()
\* returned and done what the processor did with it.
AfterSegment(s, r, done) ==
    IF r.outcome # "ok" THEN [s EXCEPT !.thrown = r.outcome]
    ELSE IF r.child.mn = segm_mn
         THEN [s EXCEPT !.head = r.head, !.thrown = done.thrown,
                        !.builder = AddModels(@, done.added)]
         ELSE [s EXCEPT !.head = r.head]

\* A mutant of DispatchSegment: the processor is given LOD zero.
DispatchSegment_zero_lod(segm_processor, d, s, lod, model_info, r) ==
    AfterSegment(s, r, Invoke(segm_processor, ChildPayload(d, s.head, r.child), "zero",
                              model_info))

\* if (child.magic_number() == "segm"_mn) std::invoke(...) on the child that
\* read_child returned as r.
DispatchSegment(segm_processor, d, s, lod, model_info, r) ==
    AfterSegment(s, r, Invoke(segm_processor, ChildPayload(d, s.head, r.child), lod,
                              model_info))

\* One turn of `while (model) { const auto child = model.read_child(); ... }`.
ModelChild(segm_processor, d, s, lod, model_info) ==
    DispatchSegment(segm_processor, d, s, lod, model_info, read_child(d, s.head, FALSE))

\* while (model) { ... }
RECURSIVE ModelChildren(_, _, _, _, _)
ModelChildren(segm_processor, d, s, lod, model_info) ==
    IF s.thrown # "none" \/ ~Truthy(s.head, Len(d))
    THEN s
    ELSE ModelChildren(segm_processor, d, ModelChild(segm_processor, d, s, lod, model_info),
                       lod, model_info)

\* What handle_model_impl leaves: the exception that left it, if any, and
\* the builders.
Handled(thrown, builders) == [thrown |-> thrown, builders |-> builders]

\* What the reads of handle_model_impl before builders[name] leave: the
\* exception thrown, if any, whether NAME has been decoded, the name and the
\* LOD, the head of the model reader and the Model_info.
Prelude(thrown, named, name_lod, h, model_info) ==
    [thrown |-> thrown, named |-> named, name_lod |-> name_lod, head |-> h,
     model_info |-> model_info]

NoModelInfo == [vertex_box |-> << >>, visibility_box |-> << >>, face_count |-> 0]

\* The reads of handle_model_impl before builders[name], in the order of
\* the code, each after the one before it has succeeded: NAME and
\* read_model_name, VRTX if there, NODE, INFO and read_model_info.
ReadPrelude(d) ==
    LET InfoRead(name_lod, info, info_payload, read_info) ==
            IF read_info.thrown # "none"
            THEN Prelude(read_info.thrown, TRUE, name_lod, info.head, NoModelInfo)
            ELSE Prelude("none", TRUE, name_lod, info.head,
                         ModelInfoOf(info_payload, read_info))
        InfoOf(name_lod, info, info_payload) ==
            InfoRead(name_lod, info, info_payload, read_model_info(info_payload))
        Informed(name_lod, node, info) ==
            IF info.outcome # "ok"
            THEN Prelude(info.outcome, TRUE, name_lod, info.head, NoModelInfo)
            ELSE InfoOf(name_lod, info, ChildPayload(d, node.head, info.child))
        Noded(name_lod, node) ==
            IF node.outcome # "ok"
            THEN Prelude(node.outcome, TRUE, name_lod, node.head, NoModelInfo)
            ELSE Informed(name_lod, node, read_child_strict(d, node.head, INFO_mn, FALSE))
        Vertexed(name_lod, vrtx) ==
            IF vrtx.outcome \notin {"ok", "absent"}
            THEN Prelude(vrtx.outcome, TRUE, name_lod, vrtx.head, NoModelInfo)
            ELSE Noded(name_lod, read_child_strict(d, vrtx.head, NODE_mn, FALSE))
        Lodded(name, name_lod) ==
            IF name_lod.thrown # "none"
            THEN Prelude(name_lod.thrown, FALSE, name_lod, name.head, NoModelInfo)
            ELSE Vertexed(name_lod,
                          read_child_strict_optional(d, name.head, VRTX_mn, FALSE))
        Named(name) ==
            IF name.outcome # "ok"
            THEN Prelude(name.outcome, FALSE, NameResult(name.outcome, << >>, "zero"),
                         name.head, NoModelInfo)
            ELSE Lodded(name, read_model_name(ChildPayload(d, 0, name.child)))
    IN Named(read_child_strict(d, 0, NAME_mn, FALSE))

\* handle_model_impl from `auto& builder = builders[name]` on: the box is
\* set, the children are walked, and the builder is the one of the name.
Walked(builders, name, st) == Handled(st.thrown, WithBuilder(builders, name, st.builder))

Build(segm_processor, d, builders, pre) ==
    Walked(builders, pre.name_lod.name,
           ModelChildren(segm_processor, d,
                         Driving(pre.head, set_bbox(BuilderOf(builders, pre.name_lod.name),
                                                    create_bbox(pre.model_info))),
                         pre.name_lod.lod, pre.model_info))

\* A mutant of AfterPrelude: the builder is looked up before the children
\* after NAME are read.
AfterPrelude_builder_first(segm_processor, d, builders, pre) ==
    IF pre.thrown # "none"
    THEN Handled(pre.thrown,
                 IF pre.named
                 THEN WithBuilder(builders, pre.name_lod.name,
                                  BuilderOf(builders, pre.name_lod.name))
                 ELSE builders)
    ELSE Build(segm_processor, d, builders, pre)

\* An exception of the reads leaves handle_model_impl before builders[name].
AfterPrelude(segm_processor, d, builders, pre) ==
    IF pre.thrown # "none"
    THEN Handled(pre.thrown, builders)
    ELSE Build(segm_processor, d, builders, pre)

\* handle_model_impl(segm_processor, model, builders) on a model reader over d.
handle_model_impl(segm_processor, d, builders) ==
    AfterPrelude(segm_processor, d, builders, ReadPrelude(d))

handle_model(d, builders) == handle_model_impl("pc", d, builders)
handle_model_xbox(d, builders) == handle_model_impl("xbox", d, builders)
handle_model_ps2(d, builders) == handle_model_impl("ps2", d, builders)

(***************************************************************************)
(* Segments to process.                                                    *)
(***************************************************************************)
\* A dialect-1 material of flags specular with its value and colour, and a
\* dialect-2 material of flags env_map.
SpecularMaterial == U32Bytes(48) \o U32Bytes(5) \o <<128, 128, 128, 127>>
EnvMapMaterial == Dialect2Payload(256, 0)

\* 0x8000 and 0x8001 as two bytes each, and a strip buffer of the five
\* indices 0x8000, 0x8001, 2, 3, 4.
U16Bytes(v) == <<v % 256, v \div 256>>

RECURSIVE U16Array(_)
U16Array(indices) ==
    IF indices = << >> THEN << >> ELSE U16Bytes(Head(indices)) \o U16Array(Tail(indices))

StripIndices == <<32768, 32769, 2, 3, 4>>

\* The INFO child of a PS2 segment: vertex_count, index_count.
SegmentInfo == Kid(INFO_mn, U32Bytes(1) \o U32Bytes(Len(StripIndices)))

\* The children a segment is made of.
\* A VBUF of no vertex: the header {vertex_count = 0, stride = 0, flags = 0}.
EmptyVbuf == U32Bytes(0) \o U32Bytes(0) \o U32Bytes(0)

SegmentKids ==
    {Kid(MTRL_mn, SpecularMaterial),
     Kid(MTRL_mn, EnvMapMaterial),
     Kid(RTYP_mn, CString(Bump_sv)),
     Kid(RTYP_mn, CString(Refraction_sv)),
     Kid(MNAM_mn, CString(<<109>>)),
     Kid(TNAM_mn, U32Bytes(1) \o CString(<<116>>)),
     Kid(IBUF_mn, U32Bytes(3) \o U16Array(<<0, 1, 2>>)),
     Kid(VBUF_mn, EmptyVbuf),
     Kid(BNAM_mn, CString(<<112>>)),
     Kid(BMAP_mn, U32Bytes(2) \o <<7, 8>>),
     Kid(STRP_mn, U16Array(StripIndices)),
     Kid(POSI_mn, <<255, 255, 255, 255, 255, 255>>),
     Kid(NORM_mn, <<127, 127, 127>>),
     Kid(XXXX_mn, <<120>>)}

KidSequences == UNION {[1..n -> SegmentKids] : n \in 0..MaxKids}

\* Segments: up to MaxKids children, with and without the INFO child of
\* PS2 in front.
SegmentPayloads ==
    {ChunksOf(ks) : ks \in KidSequences}
    \cup {ChunksOf(<<SegmentInfo>> \o ks) : ks \in KidSequences}

\* The Model_info a processor is given: the boxes and the face count of an
\* INFO chunk of 68 bytes.
GivenModelInfo == ModelInfoOf(InfoPayload(68), read_model_info(InfoPayload(68)))

\* The LOD a processor is given.
GivenLod == "one"

InitSegment ==
    /\ data \in SegmentPayloads
    /\ head = 0
    /\ last = Constructed
    /\ out = << >>

ProcessSegment(platform) ==
    /\ last.op = "construct"
    /\ \E r \in {Invoke(platform, data, GivenLod, GivenModelInfo)} :
          /\ out' = r
          /\ last' = [Called("process_segment", IF r.thrown = "none" THEN "ok" ELSE r.thrown)
                          EXCEPT !.tag = platform]
    /\ UNCHANGED <<data, head>>

ProcessSegmentPc == ProcessSegment("pc")
ProcessSegmentXbox == ProcessSegment("xbox")
ProcessSegmentPs2 == ProcessSegment("ps2")

NextSegment ==
    \/ ProcessSegmentPc
    \/ ProcessSegmentXbox
    \/ ProcessSegmentPs2

SpecSegment == InitSegment /\ [][NextSegment]_vars

(***************************************************************************)
(* Model chunks to handle.  out holds the builders the handler is given    *)
(* and, once it has run, the exception that left it and the builders it    *)
(* leaves.                                                                 *)
(***************************************************************************)
\* The names of the NAME child: cLOD1, crat, ab.
ModelNames == {<<99>> \o LOD1, <<99, 114, 97, 116>>, <<97, 98>>}

\* The children a model chunk begins with, each there or not, in the order
\* NAME, VRTX, NODE, INFO and with NODE and INFO the other way round.
NameKids == {<< >>} \cup {<<Kid(NAME_mn, CString(n))>> : n \in ModelNames}
VrtxKids == {<< >>, <<Kid(VRTX_mn, <<1, 2, 3, 4>>)>>}
NodeKids == {<< >>, <<Kid(NODE_mn, << >>)>>}
InfoKids == {<< >>} \cup {<<Kid(INFO_mn, InfoPayload(s))>> : s \in {67, 68, 72}}

Envelopes ==
    {n \o v \o nd \o i : n \in NameKids, v \in VrtxKids, nd \in NodeKids, i \in InfoKids}
    \cup {n \o i \o nd : n \in NameKids, nd \in NodeKids, i \in InfoKids}

\* The children after INFO: segments with and without an unknown child and
\* with and without the INFO of PS2, one with a VBUF too short for its
\* header, and an unknown child of the model.
MnamKid(c) == Kid(MNAM_mn, CString(<<c>>))
UnknownKid == Kid(XXXX_mn, <<120>>)

SegmKids ==
    {Kid(segm_mn, ChunksOf(ks)) :
        ks \in {<<MnamKid(109)>>,
                <<UnknownKid, MnamKid(109)>>,
                <<SegmentInfo, MnamKid(110)>>,
                <<SegmentInfo, UnknownKid, MnamKid(109)>>,
                <<SegmentInfo, MnamKid(110), UnknownKid>>,
                <<UnknownKid, SegmentInfo, MnamKid(109)>>,
                <<Kid(VBUF_mn, <<1, 2, 3, 4>>), MnamKid(109)>>}}

ModelTails == UNION {[1..n -> SegmKids \cup {UnknownKid}] : n \in 0..MaxSegms}

ModelPayloads == {ChunksOf(e \o t) : e \in Envelopes, t \in ModelTails}

\* The builders a handler is given: none, or the one of the name c with
\* the calls of an earlier model.
NoBuilders == [n \in {} |-> DefaultBuilder]

GivenBuilders ==
    {NoBuilders,
     [n \in {<<99>>} |-> add_model(set_bbox(DefaultBuilder, create_bbox(GivenModelInfo)),
                                   DefaultModel)]}

InitModel ==
    /\ data \in ModelPayloads
    /\ head = 0
    /\ last = Constructed
    /\ out \in {[thrown |-> "none", builders |-> b, before |-> b] : b \in GivenBuilders}

HandleModelOn(platform, r) ==
    /\ out' = [thrown |-> r.thrown, builders |-> r.builders, before |-> out.builders]
    /\ last' = [Called("handle_model", IF r.thrown = "none" THEN "ok" ELSE r.thrown)
                    EXCEPT !.tag = platform]
    /\ UNCHANGED <<data, head>>

HandleModel ==
    /\ last.op = "construct"
    /\ \E r \in {handle_model(data, out.builders)} : HandleModelOn("pc", r)

HandleModelXbox ==
    /\ last.op = "construct"
    /\ \E r \in {handle_model_xbox(data, out.builders)} : HandleModelOn("xbox", r)

HandleModelPs2 ==
    /\ last.op = "construct"
    /\ \E r \in {handle_model_ps2(data, out.builders)} : HandleModelOn("ps2", r)

NextModel ==
    \/ HandleModel
    \/ HandleModelXbox
    \/ HandleModelPs2

SpecModel == InitModel /\ [][NextModel]_vars


(***************************************************************************)
(* The loops over children, turn by turn: `while (segment)` of each        *)
(* processor and `while (model)` of handle_model_impl.  out holds the loop, *)
(* the processor or driver at work, the turns made and the head before the *)
(* last of them.                                                           *)
(***************************************************************************)
\* Children to walk over: with the INFO of PS2 in front or not, with and
\* without padding, of no payload, a segm, a child that does not decode, an
\* INFO too short for its counts.
WalkKids ==
    {MnamKid(109), Kid(XXXX_mn, << >>), UnknownKid, SegmentInfo, Kid(INFO_mn, <<1, 0, 0, 0>>),
     Kid(segm_mn, ChunksOf(<<MnamKid(110)>>)), Kid(MTRL_mn, <<1>>)}

\* What follows the children: nothing, less than a header, a header that
\* declares more than there is.
WalkTails ==
    {<< >>, <<1, 2, 3>>, ChunkHeader(XXXX_mn, 9), ChunkHeader(MNAM_mn, 2) \o <<110>>}

WalkPayloads ==
    {ChunksOf(ks) \o t : ks \in UNION {[1..n -> WalkKids] : n \in 0..MaxSegms}, t \in WalkTails}

Loops == {"pc", "xbox", "ps2", "model"}

\* The processor or the driver as its loop begins.
Entering(loop, d) ==
    IF loop = "model" THEN Driving(0, DefaultBuilder)
    ELSE IF loop = "ps2"
         THEN SegmentInfoPs2(d, Processing(0, [DefaultModel EXCEPT !.lod = GivenLod]))
         ELSE Processing(0, [DefaultModel EXCEPT !.lod = GivenLod])

Walking(loop, s, turns, h0) == [loop |-> loop, s |-> s, turns |-> turns, h0 |-> h0]

InitWalk ==
    /\ data \in WalkPayloads
    /\ \E loop \in Loops : \E s \in {Entering(loop, data)} :
           /\ out = Walking(loop, s, 0, 0)
           /\ head = s.head
    /\ last = Constructed

\* while (reader): the loop goes on.
Goes(loop) ==
    /\ out.loop = loop
    /\ out.s.thrown = "none"
    /\ Truthy(out.s.head, Size)
    /\ out.turns < MaxTurns

\* A turn has led from out.s to s.
Turn(s) ==
    /\ out' = Walking(out.loop, s, out.turns + 1, out.s.head)
    /\ head' = s.head
    /\ last' = Called("read_child", IF s.thrown = "none" THEN "ok" ELSE s.thrown)
    /\ UNCHANGED data

WalkSegmentPc == Goes("pc") /\ \E s \in {SegmentChildPc(data, out.s)} : Turn(s)

WalkSegmentXbox == Goes("xbox") /\ \E s \in {SegmentChildXbox(data, out.s)} : Turn(s)

WalkSegmentPs2 ==
    Goes("ps2") /\ \E s \in {SegmentChildPs2(data, out.s, GivenModelInfo.vertex_box)} : Turn(s)

WalkModel ==
    Goes("model") /\ \E platform \in Platforms :
        \E s \in {ModelChild(platform, data, out.s, GivenLod, GivenModelInfo)} : Turn(s)

NextWalk ==
    \/ WalkSegmentPc
    \/ WalkSegmentXbox
    \/ WalkSegmentPs2
    \/ WalkModel

SpecWalk == InitWalk /\ [][NextWalk]_vars


(***************************************************************************)
(* Properties of the reader.                                               *)
(***************************************************************************)
\* The smallest multiple of four that is at least x.
Ceil4(x) == 4 * ((x + 3) \div 4)

Min(a, b) == IF a <= b THEN a ELSE b

SizedReads == {"read_trivial", "read_array"}

\* C1: in every reachable state of a reader, whatever operations were applied
\* and however each ended, the head is within the chunk: 0 <= head <= size.
C1_HeadWithinSize == 0 <= head /\ head <= Size

\* C2: a trivial or array read of n bytes from head h with h + n <= size
\* leaves head = min(4 * ceil((h + n) / 4), size) when aligned, a multiple of
\* four unless it is the size, and head = h + n when unaligned.
C2_AlignedReadClamped ==
    (last.op \in SizedReads /\ last.h0 + last.n <= Size) =>
        IF last.unaligned
        THEN head = last.h0 + last.n
        ELSE /\ head = Min(Ceil4(last.h0 + last.n), Size)
             /\ (head % 4 = 0 \/ head = Size)

\* What a child read at head h finds in the payload.
HeaderFits(h) == h + HeaderSize <= Size
MagicAt(h) == LE32(Slice(data, h, 4))
DeclaredAt(h) == LE32(Slice(data, h + 4, 4))
ChildFits(h) == HeaderFits(h) /\ h + HeaderSize + DeclaredAt(h) <= Size

\* C3: a strict child read of tag T either finds at the head a child of magic
\* T whose 8 + size bytes fit in the rest of the payload, returns a sub-reader
\* of magic T and moves the head past the child (to the next multiple of four
\* when aligned, to the end of the child when unaligned), or fails with
\* UnexpectedMagic or BoundsViolation and leaves the head where it was.
C3_StrictChild ==
    last.op = "read_child_strict" =>
        IF ChildFits(last.h0) /\ MagicAt(last.h0) = last.tag
        THEN /\ last.outcome = "ok"
             /\ last.child = Child(last.tag, DeclaredAt(last.h0))
             /\ head >= last.h0 + HeaderSize + last.child.size
             /\ IF last.unaligned
                THEN head = last.h0 + HeaderSize + last.child.size
                ELSE /\ head % 4 = 0
                     /\ head < last.h0 + HeaderSize + last.child.size + 4
        ELSE /\ last.outcome \in {"UnexpectedMagic", "BoundsViolation"}
             /\ ~last.child.present
             /\ head = last.h0

\* C3 happens: an aligned strict read returned a child whose end is not on a
\* four byte margin, so the head moved over padding.
C3_Witness ==
    /\ last.op = "read_child_strict"
    /\ last.outcome = "ok"
    /\ ~last.unaligned
    /\ (last.h0 + HeaderSize + last.child.size) % 4 # 0
    /\ head > last.h0 + HeaderSize + last.child.size

\* C4: a child read that reports absent has not moved the head:
\* read_child_strict_optional is absent, head unmoved, when the child's
\* magic is not the expected one, and the no-throw read_child is absent, head
\* unmoved, when the child's header or declared size crosses the end of the
\* payload.
C4_AbsentKeepsHead ==
    /\ last.outcome = "absent" => (head = last.h0 /\ ~last.child.present)
    /\ (/\ last.op = "read_child_strict_optional"
        /\ ChildFits(last.h0)
        /\ MagicAt(last.h0) # last.tag) => (last.outcome = "absent" /\ head = last.h0)
    /\ (last.op = "read_child_nothrow" /\ ~ChildFits(last.h0)) =>
           (last.outcome = "absent" /\ head = last.h0)

\* C4 happens: a no-throw read found a whole header whose declared size
\* crosses the end of the payload, and reported absent.
C4_Witness ==
    /\ last.op = "read_child_nothrow"
    /\ last.outcome = "absent"
    /\ HeaderFits(last.h0)
    /\ ~ChildFits(last.h0)

ThrowingReads ==
    {"read_trivial", "read_array", "read_string", "read_child", "read_child_strict",
     "read_child_strict_optional"}

\* C5 as claimed: a reader is truthy exactly when head < size; over a chunk
\* of size zero it is falsy once constructed and every trivial, array,
\* string and child read fails with BoundsViolation.
C5_EveryReadOfEmptyFails ==
    /\ Truthy(head, Size) <=> head < Size
    /\ (Size = 0 /\ last.op = "construct") => ~Truthy(head, Size)
    /\ (Size = 0 /\ last.op \in ThrowingReads) => last.outcome = "BoundsViolation"

\* C5 as amended: over a chunk of size zero the reader is falsy in every
\* state, every read of at least one byte (trivial, array of n > 0 bytes,
\* string, child) fails with BoundsViolation, the no-throw child read is
\* absent, and an array read of no elements at head 0 succeeds and leaves
\* the head at 0.
C5_EmptyChunk ==
    Size = 0 =>
        /\ ~Truthy(head, Size)
        /\ last.op \in (ThrowingReads \ {"read_array"}) => last.outcome = "BoundsViolation"
        /\ (last.op = "read_array" /\ last.n > 0) => last.outcome = "BoundsViolation"
        /\ (last.op = "read_array" /\ last.n = 0 /\ last.h0 = 0) =>
               (last.outcome = "ok" /\ head = 0)
        /\ last.op = "read_child_nothrow" => last.outcome = "absent"

\* C5 happens: a read of four bytes was tried on a chunk of size zero.
C5_Witness ==
    /\ Size = 0
    /\ last.op = "read_trivial"
    /\ last.n = 4
    /\ last.h0 = 0
    /\ last.outcome = "BoundsViolation"

\* C6 as claimed: in every state with the head inside the chunk, also at a
\* head that is no multiple of four, consume(0) succeeds and leaves the head
\* unchanged, aligned or unaligned.
C6_ConsumeZeroIsNoOp ==
    (last.op = "consume" /\ last.n = 0 /\ last.h0 <= Size) =>
        (last.outcome = "ok" /\ head = last.h0)

\* C6 as amended: at a head inside the chunk consume(0) succeeds; unaligned
\* it leaves the head unchanged; aligned it moves the head to the next
\* multiple of four, clamped to size, so it leaves the head unchanged exactly
\* when the head is a multiple of four or is at the end of the chunk.
C6_ConsumeZero ==
    (last.op = "consume" /\ last.n = 0 /\ last.h0 <= Size) =>
        /\ last.outcome = "ok"
        /\ last.unaligned => head = last.h0
        /\ ~last.unaligned =>
               /\ head = (IF Ceil4(last.h0) > Size THEN Size ELSE Ceil4(last.h0))
               /\ head = last.h0 <=> (last.h0 % 4 = 0 \/ last.h0 = Size)

\* C6 happens: an aligned consume(0) at a head inside the chunk that is no
\* multiple of four moved the head, to the end of the chunk which is no
\* multiple of four either.
C6_Witness ==
    /\ last.op = "consume"
    /\ last.n = 0
    /\ ~last.unaligned
    /\ last.h0 % 4 # 0
    /\ last.h0 < Size
    /\ last.outcome = "ok"
    /\ head # last.h0
    /\ head = Size
    /\ Size % 4 # 0

(***************************************************************************)
(* Properties of read_model_name and read_model_info.                      *)
(***************************************************************************)
\* The NAME string of the payload: the bytes before its NUL.
NameOf(d) == SubSeq(d, 1, Len(d) - 1)

Last4(n) == IF Len(n) >= 4 THEN SubSeq(n, Len(n) - 3, Len(n)) ELSE << >>
Without4(n) == SubSeq(n, 1, Len(n) - 4)

\* C7: for every NAME string n, of any length, read_model_name returns
\* (n without its last four characters, one / two / lowres) when the last
\* four characters of n are LOD1 / LOD2 / LOWD, and (n, zero) in every other
\* case, names of fewer than four characters included, without failing.
C7_ModelName ==
    last.op = "read_model_name" =>
        LET n == NameOf(data)
        IN /\ out.thrown = "none"
           /\ out = IF Last4(n) = LOD1 THEN NameResult("none", Without4(n), "one")
                    ELSE IF Last4(n) = LOD2 THEN NameResult("none", Without4(n), "two")
                    ELSE IF Last4(n) = LOWD THEN NameResult("none", Without4(n), "lowres")
                    ELSE NameResult("none", n, "zero")

\* C8: read_model_info fails with UnknownModelInfo, before it reads a field,
\* exactly when the size of the INFO payload is neither 68 nor 72; for 68
\* and for 72 the five reads (3 or 4 skipped i32, vertex_box, visibility_box,
\* a skipped i32, face_count) stay within the payload and end with head = size.
C8_ModelInfo ==
    last.op = "read_model_info" =>
        /\ out.thrown = "UnknownModelInfo" <=> Size \notin {68, 72}
        /\ out.thrown = "UnknownModelInfo" => (out.starts = << >> /\ head = 0)
        /\ Size \in {68, 72} =>
               /\ out.thrown = "none"
               /\ Len(out.starts) = 5
               /\ out.starts[1] = 0
               /\ out.starts[2] = Size - 56
               /\ out.starts[3] = Size - 32
               /\ out.starts[4] = Size - 8
               /\ out.starts[5] = Size - 4
               /\ head = Size
               /\ out.face_count = LE32(<<Size - 3, Size - 2, Size - 1, Size>>)

\* C8 happens: a 68 byte INFO was read to its end.
C8_Witness ==
    /\ last.op = "read_model_info"
    /\ Size = 68
    /\ out.thrown = "none"
    /\ Len(out.starts) = 5
    /\ head = 68

(***************************************************************************)
(* Properties of read_material.                                            *)
(***************************************************************************)
\* The flag word of the MTRL payload, and whether one of its bits is set.
FlagWord == LE32(Slice(data, 0, 4))
Bit(f, b) == (f \div b) % 2 = 1

\* C9 as claimed: a payload of fewer than 24 bytes is decoded as dialect-1,
\* any other as dialect-2; an MTRL of size 0 decodes successfully as
\* dialect-1 and leaves the material at its defaults; an MTRL of 24 header
\* bytes and one NUL decodes successfully as dialect-2, attached_light empty.
C9_EmptyMaterialDecodes ==
    last.op = "read_material" =>
        /\ out.dialect = IF Size < 24 THEN 1 ELSE 2
        /\ Size = 0 => (out.thrown = "none" /\ out.m = DefaultMaterial)
        /\ (Size = 25 /\ data[25] = 0) =>
               (out.thrown = "none" /\ out.dialect = 2 /\ out.m.attached_light = << >>)

\* C9 as amended: a payload of fewer than 24 bytes is decoded as dialect-1,
\* any other as dialect-2 (a decode that succeeds has written the diffuse
\* colour exactly when the payload has 24 bytes or more); an MTRL of fewer
\* than 4 bytes, size 0 included, fails with BoundsViolation at the flag
\* word and leaves the material at its defaults; an MTRL of 4 bytes holding
\* the flag word 0 decodes as dialect-1 and leaves the material at its
\* defaults; an MTRL of 24 header bytes and one NUL decodes successfully as
\* dialect-2 with attached_light empty.
C9_MaterialDispatch ==
    last.op = "read_material" =>
        /\ out.dialect = IF Size < 24 THEN 1 ELSE 2
        /\ out.thrown = "none" => (out.m.diffuse_colour = Unset <=> Size < 24)
        /\ Size < 4 => (out.thrown = "BoundsViolation" /\ out.m = DefaultMaterial)
        /\ (Size = 4 /\ FlagWord = 0) =>
               (out.thrown = "none" /\ out.m = DefaultMaterial /\ head = 4)
        /\ (Size = 25 /\ data[25] = 0) =>
               /\ out.thrown = "none"
               /\ out.dialect = 2
               /\ out.m.attached_light = << >>
               /\ head = 25

\* C9 happens: read_material was called on an MTRL of size 0.
C9_Witness ==
    /\ last.op = "read_material"
    /\ Size = 0
    /\ out.dialect = 1
    /\ out.thrown = "BoundsViolation"

\* The render type the flag word f assigns: that of the last set bit in the
\* order bumpmap, env_map, wireframe, scrolling, energy, animated.
TypeOf(f) ==
    IF Bit(f, 67108864) THEN "animated"
    ELSE IF Bit(f, 33554432) THEN "energy"
    ELSE IF Bit(f, 16777216) THEN "scrolling"
    ELSE IF Bit(f, 2048) THEN "wireframe"
    ELSE IF Bit(f, 256) THEN "env_map"
    ELSE IF Bit(f, 32) THEN "bumpmap"
    ELSE "normal"

\* C10: a dialect-2 flag word applied to a default material sets the render
\* flag transparent iff bit 4 is set and bit 65536 is clear, sets doublesided
\* iff bit 65536 is set, and leaves the render type of the last set bit in
\* the order bumpmap(32), env_map(256), wireframe(2048), scrolling(16777216),
\* energy(33554432), animated(67108864), normal when none of them is set.
C10_Dialect2Flags ==
    (last.op = "read_material" /\ out.dialect = 2 /\ out.thrown = "none") =>
        /\ "transparent" \in out.m.flags <=> (Bit(FlagWord, 4) /\ ~Bit(FlagWord, 65536))
        /\ "doublesided" \in out.m.flags <=> Bit(FlagWord, 65536)
        /\ out.m.type = TypeOf(FlagWord)

\* C10 happens: the flag word transparent | doublesided = 65540 was decoded.
C10_Witness ==
    /\ last.op = "read_material"
    /\ out.dialect = 2
    /\ out.thrown = "none"
    /\ FlagWord = 65540
    /\ out.m.flags = {"doublesided"}

\* C20: no dialect-1 decode succeeds for a flag word with specular (48),
\* detail (512) and scroll (1024) all set: with fewer than 24 bytes such a
\* material fails with BoundsViolation, with 24 or more it is decoded as
\* dialect-2; and every dialect-1 decode that succeeds has consumed at most
\* 20 bytes.
C20_Dialect1AtMost20 ==
    last.op = "read_material" =>
        /\ (out.dialect = 1 /\ out.thrown = "none") =>
               /\ head <= 20
               /\ ~(Bit(FlagWord, 16) /\ Bit(FlagWord, 32) /\ Bit(FlagWord, 512)
                        /\ Bit(FlagWord, 1024))
        /\ (Size >= 4 /\ Bit(FlagWord, 16) /\ Bit(FlagWord, 32) /\ Bit(FlagWord, 512)
                /\ Bit(FlagWord, 1024)) =>
               IF Size < 24
               THEN out.dialect = 1 /\ out.thrown = "BoundsViolation"
               ELSE out.dialect = 2

\* C20 happens: a material of 20 bytes with specular, detail and scroll set
\* was given to the dialect-1 decoder, which ran out of bytes.
C20_Witness ==
    /\ last.op = "read_material"
    /\ Size = 20
    /\ FlagWord = 48 + 512 + 1024
    /\ out.dialect = 1
    /\ out.thrown = "BoundsViolation"
    /\ out.m.type_swbf1 = "scroll"

(***************************************************************************)
(* Properties of read_vertex_strip_ps2.                                    *)
(***************************************************************************)
\* The smallest position >= from whose index has bit 0x8000 set, the length
\* of the buffer if there is none.  (Positions count from 0.)
NextMarker(indices, from) ==
    LET marked == {q \in from..(Len(indices) - 1) : indices[q + 1] >= 32768}
    IN IF marked = {} THEN Len(indices)
       ELSE CHOOSE q \in marked : \A q2 \in marked : q <= q2

\* C16: one call of read_vertex_strip_ps2 at cursor p on a buffer of length
\* L fails with InvalidIndexBuffer and leaves p unchanged when p + 1 >= L;
\* otherwise it returns indices[p] & 0x7FFF, indices[p+1] & 0x7FFF and then
\* indices[p+2 .. q-1] unchanged and sets p = q, q the smallest position >=
\* p + 2 with bit 0x8000 set, or L; so a successful call advances p by at
\* least 2 and p never exceeds L.
C16_VertexStrip ==
    last.op = "read_vertex_strip_ps2" =>
        LET p == last.h0
            L == Len(data)
            q == NextMarker(data, p + 2)
        IN IF p + 1 >= L
           THEN out.thrown = "InvalidIndexBuffer" /\ head = p
           ELSE /\ out.thrown = "none"
                /\ head = q
                /\ head >= p + 2
                /\ head <= L
                /\ Len(out.strip) = q - p
                /\ out.strip[1] = data[p + 1] % 32768
                /\ out.strip[2] = data[p + 2] % 32768
                /\ \A i \in 3..(q - p) : out.strip[i] = data[p + i]

\* C16 happens: a strip of a marked header and one more index was read from
\* the middle of a buffer, up to the marker of the next strip.
C16_Witness ==
    /\ last.op = "read_vertex_strip_ps2"
    /\ out.thrown = "none"
    /\ last.h0 = 0
    /\ data[1] >= 32768
    /\ Len(out.strip) = 3
    /\ head < Len(data)

(***************************************************************************)
(* Properties of handle_unknown.                                           *)
(***************************************************************************)
\* The file names synthesised and not saved yet.
NamesInHand == {out.file_name[w] : w \in {v \in Workers : out.pc[v] = "save"}}

\* C15: under every interleaving of the workers, the numbers that calls
\* without a file name were handed are exactly 0, 1, 2, ... in the order of
\* the fetches, none skipped or repeated; the counter is the number of
\* fetches; and no two of these calls synthesise the same file name.
C15_UniqueChunkNames ==
    /\ out.chunk_count = Len(out.handed)
    /\ \A i \in 1..Len(out.handed) : out.handed[i] = i - 1
    /\ \A i, j \in 1..Len(out.handed) :
           i # j => ChunkName(out.handed[i]) # ChunkName(out.handed[j])
    /\ \A v, w \in Workers :
           (v # w /\ out.pc[v] = "save" /\ out.pc[w] = "save") =>
               out.file_name[v] # out.file_name[w]
    /\ \A n \in NamesInHand \cup out.saved :
           n[1] = "chunk_" => \E i \in 1..Len(out.handed) : n = ChunkName(out.handed[i])

\* C15 happens: two workers hold synthesised names at once, the counter
\* having gone past 10.
C15_Witness ==
    /\ out.pc[1] = "save"
    /\ out.pc[2] = "save"
    /\ out.file_name[1][1] = "chunk_"
    /\ out.file_name[2][1] = "chunk_"
    /\ out.chunk_count > 10

(***************************************************************************)
(* Properties of handle_object.                                            *)
(***************************************************************************)
\* The children of a payload read off its headers: each begins on the four
\* byte margin after the end of the one before.
\* The size the header at place h of d declares.
DeclaredOf(d, h) == LE32(Slice(d, h + 4, 4))

RECURSIVE KidsFrom(_, _)
KidsFrom(d, h) ==
    IF h + HeaderSize > Len(d) \/ h + HeaderSize + DeclaredOf(d, h) > Len(d)
    THEN << >>
    ELSE <<Kid(LE32(Slice(d, h, 4)), Slice(d, h + HeaderSize, DeclaredOf(d, h)))>>
             \o KidsFrom(d, Ceil4(h + HeaderSize + DeclaredOf(d, h)))

KidsOf(d) == KidsFrom(d, 0)

\* The characters of p from place `from` (counted from 1) up to its first NUL.
TextAt(p, from) ==
    LET nul == CHOOSE i \in from..Len(p) : p[i] = 0 /\ \A j \in from..(i - 1) : p[j] # 0
    IN SubSeq(p, from, nul - 1)

HasNulFrom(p, from) == \E i \in from..Len(p) : p[i] = 0

\* The payload is BASE, TYPE and then PROP children and nothing else, every
\* string with its NUL.
IsObjectChunk(d) ==
    LET kids == KidsOf(d)
    IN /\ ChunksOf(kids) = d
       /\ Len(kids) >= 2
       /\ kids[1].mn = BASE_mn /\ HasNulFrom(kids[1].payload, 1)
       /\ kids[2].mn = TYPE_mn /\ HasNulFrom(kids[2].payload, 1)
       /\ \A i \in 3..Len(kids) :
              /\ kids[i].mn = PROP_mn
              /\ Len(kids[i].payload) >= 4
              /\ HasNulFrom(kids[i].payload, 5)

PropOf(kid) == [hash |-> LE32(SubSeq(kid.payload, 1, 4)), value |-> TextAt(kid.payload, 5)]

\* The lines of the [Properties] section for the PROP children from the
\* i-th on.
RECURSIVE PropertyLines(_, _)
PropertyLines(kids, i) ==
    IF i > Len(kids)
    THEN << >>
    ELSE <<lookup_fnv_hash(PropOf(kids[i]).hash), Lit(" = \""),
           Chars(PropOf(kids[i]).value), Lit("\"\n")>> \o PropertyLines(kids, i + 1)

\* C14: for an object chunk of BASE, TYPE and n PROP children, handle_object
\* calls save_file exactly once, with directory tag "odf", basename the TYPE
\* string and extension ".odf"; the text is the bracketed type, the
\* ClassLabel line with the BASE string, a GeometryName line iff some PROP
\* has hash 0x47C86B4A (with the value of the first such PROP and ".msh"),
\* and a [Properties] section of one line per PROP in the order of the input.
C14_ObjectDescriptor ==
    (last.op = "handle_object" /\ IsObjectChunk(data)) =>
        LET kids == KidsOf(data)
            geometry == {i \in 3..Len(kids) : PropOf(kids[i]).hash = 1204317002}
            first == CHOOSE i \in geometry : \A j \in geometry : i <= j
        IN /\ out.thrown = "none"
           /\ Len(out.saved) = 1
           /\ out.saved[1].directory = Lit("odf")
           /\ out.saved[1].name = Chars(TextAt(kids[2].payload, 1))
           /\ out.saved[1].extension = Lit(".odf")
           /\ out.saved[1].contents =
                  <<Lit("[")>> \o ObjectType \o <<Lit("]\n\n")>>
                  \o <<Lit("ClassLabel"), Lit(" = \""), Chars(TextAt(kids[1].payload, 1)),
                       Lit("\"\n")>>
                  \o (IF geometry = {} THEN << >>
                      ELSE <<Lit("GeometryName"), Lit(" = \""),
                             Chars(PropOf(kids[first]).value), Lit(".msh"), Lit("\"\n")>>)
                  \o <<Lit("\n"), Lit("["), Lit("Properties"), Lit("]\n\n")>>
                  \o PropertyLines(kids, 3)

\* C14 happens: an object with three PROP children was saved, the second and
\* the third of the GeometryName hash with different values.
C14_Witness ==
    /\ last.op = "handle_object"
    /\ IsObjectChunk(data)
    /\ Len(out.saved) = 1
    /\ LET kids == KidsOf(data)
       IN /\ Len(kids) = 5
          /\ PropOf(kids[3]).hash # 1204317002
          /\ PropOf(kids[4]).hash = 1204317002
          /\ PropOf(kids[5]).hash = 1204317002
          /\ PropOf(kids[4]).value # PropOf(kids[5]).value

(***************************************************************************)
(* Properties of the segment processors.                                   *)
(***************************************************************************)
\* The indices of a STRP payload, and the number of its two-index marker
\* headers: the places where a marked index follows an unmarked one or
\* begins the buffer.
IndicesOf(p) == [i \in 1..(Len(p) \div 2) |-> p[2 * i - 1] + 256 * p[2 * i]]

Marked(v) == v >= 32768

MarkerHeaders(indices) ==
    Cardinality({i \in 1..Len(indices) :
                    Marked(indices[i]) /\ (i = 1 \/ ~Marked(indices[i - 1]))})

\* The strips of the STRP children among the kids.
StrpKids(kids) == SelectSeq(kids, LAMBDA k : k.mn = STRP_mn)

RECURSIVE SumHeaders(_)
SumHeaders(kids) ==
    IF kids = << >> THEN 0
    ELSE MarkerHeaders(IndicesOf(Head(kids).payload)) + SumHeaders(Tail(kids))

\* C11: the model that process_segment_ps2 finishes holds the strips of its
\* STRP children one by one, the marker bit cleared: no index of
\* model.strips has bit 0x8000 set, there is one strip per two-index marker
\* header, and STRP = [0x8000, 0x8001, 2, 3, 4] gives the one strip
\* [0, 1, 2, 3, 4].
C11_Ps2StripsUnmarked ==
    (last.op = "process_segment" /\ last.tag = "ps2" /\ out.thrown = "none") =>
        LET strips == out.added[1].strips
            strp == StrpKids(KidsOf(data))
        IN /\ \A s \in 1..Len(strips) : \A i \in 1..Len(strips[s]) : strips[s][i] < 32768
           /\ Len(strips) = SumHeaders(strp)
           /\ (Len(strp) = 1 /\ IndicesOf(strp[1].payload) = <<32768, 32769, 2, 3, 4>>) =>
                  strips = <<<<0, 1, 2, 3, 4>>>>

\* The kinds of children a processor knows.
Recognised(platform) ==
    IF platform = "ps2"
    THEN {MTRL_mn, RTYP_mn, MNAM_mn, TNAM_mn, STRP_mn, POSI_mn, NORM_mn, TEX0_mn, COL0_mn,
          BMAP_mn, BONE_mn, BNAM_mn}
    ELSE {MTRL_mn, RTYP_mn, MNAM_mn, TNAM_mn, IBUF_mn, VBUF_mn, BNAM_mn, BMAP_mn}

\* The sequences that hold the elements of ks in another order.
Reorderings(ks) ==
    {[i \in 1..Len(ks) |-> ks[f[i]]] :
        f \in {g \in [1..Len(ks) -> 1..Len(ks)] : \A i, j \in 1..Len(ks) : i # j => g[i] # g[j]}}

\* The children of a segment the order is said not to matter for: all
\* recognised, each kind at most once (on PS2 after the leading INFO).
Unordered(platform, kids) ==
    /\ \A i \in 1..Len(kids) : kids[i].mn \in Recognised(platform)
    /\ \A i, j \in 1..Len(kids) : i # j => kids[i].mn # kids[j].mn

\* C17: for a segm of recognised children, each kind at most once (after
\* the leading INFO on PS2), every permutation of the children decodes
\* successfully to the same finished model.
C17_OrderIndependent ==
    last.op = "process_segment" =>
        LET all == KidsOf(data)
            ps2 == last.tag = "ps2"
            lead == IF ps2 /\ all # << >> /\ all[1].mn = INFO_mn THEN <<all[1]>> ELSE << >>
            kids == IF lead = << >> THEN all ELSE Tail(all)
        IN (Unordered(last.tag, kids) /\ (ps2 => lead # << >>)) =>
               \A perm \in Reorderings(kids) :
                   LET r == Invoke(last.tag, ChunksOf(lead \o perm), GivenLod, GivenModelInfo)
                   IN r.thrown = "none" /\ r = out

(***************************************************************************)
(* Properties of handle_model.                                             *)
(***************************************************************************)
\* The place of the INFO child among the children of a model chunk that
\* begins NAME, VRTX if any, NODE, INFO of 68 or 72 bytes; 0 for any other
\* chunk.
PreludeEnd(kids) ==
    LET v == IF Len(kids) >= 2 /\ kids[2].mn = VRTX_mn THEN 1 ELSE 0
    IN IF /\ Len(kids) >= 3 + v
          /\ kids[1].mn = NAME_mn
          /\ kids[2 + v].mn = NODE_mn
          /\ kids[3 + v].mn = INFO_mn
          /\ Len(kids[3 + v].payload) \in {68, 72}
       THEN 3 + v
       ELSE 0

\* A sequence without its i-th element, and with its i-th element replaced.
Without(s, i) == [j \in 1..(Len(s) - 1) |-> IF j < i THEN s[j] ELSE s[j + 1]]
WithAt(s, i, e) == [j \in 1..Len(s) |-> IF j = i THEN e ELSE s[j]]

\* What the handler of the platform of the last call leaves of a chunk of
\* these children, given the builders it was given.
HandlingOf(kids) ==
    [thrown |-> handle_model_impl(last.tag, ChunksOf(kids), out.before).thrown,
     builders |-> handle_model_impl(last.tag, ChunksOf(kids), out.before).builders,
     before |-> out.before]

\* The magic numbers a processor has a use for: those of its chain and, on
\* PS2, INFO.
KnownTo(platform) ==
    Recognised(platform) \cup (IF platform = "ps2" THEN {INFO_mn} ELSE {})

\* A child of the model that is no segm, and a child of one of its segments
\* from the first-th on whose magic number the processor has no use for, is
\* as good as not there.
UnknownSkipped(first) ==
    LET kids == KidsOf(data)
    IN \A i \in (PreludeEnd(kids) + 1)..Len(kids) :
           IF kids[i].mn # segm_mn
           THEN HandlingOf(Without(kids, i)) = out
           ELSE \A j \in first..Len(KidsOf(kids[i].payload)) :
                    KidsOf(kids[i].payload)[j].mn \notin KnownTo(last.tag) =>
                        HandlingOf(WithAt(kids, i,
                                          Kid(segm_mn,
                                              ChunksOf(Without(KidsOf(kids[i].payload), j)))))
                            = out

\* C12 as claimed: in each segment processor and in the loop of the driver
\* a child of a magic number that is not recognised changes nothing: the
\* result is that of the chunk without the child.
C12_UnknownChildIgnored ==
    (last.op = "handle_model" /\ PreludeEnd(KidsOf(data)) > 0) => UnknownSkipped(1)

\* C12 as amended: in the loop of each segment processor (on PS2 the loop
\* begins after the leading INFO child, which is read strictly) and in the
\* loop of the driver a child of a magic number that is not recognised
\* changes nothing: the result is that of the chunk without the child.
C12_UnknownChildIgnoredInLoops ==
    (last.op = "handle_model" /\ PreludeEnd(KidsOf(data)) > 0) =>
        UnknownSkipped(IF last.tag = "ps2" THEN 2 ELSE 1)

\* C12 happens: the PC handler was given a model whose only segment is
\* [XXXX, MNAM = "m"] and added a model of material name "m".
C12_Witness ==
    /\ last.op = "handle_model"
    /\ last.tag = "pc"
    /\ out.thrown = "none"
    /\ out.before = NoBuilders
    /\ LET kids == KidsOf(data)
       IN /\ PreludeEnd(kids) = 3
          /\ Len(kids) = 4
          /\ kids[4] = Kid(segm_mn, ChunksOf(<<UnknownKid, MnamKid(109)>>))
          /\ \E n \in DOMAIN out.builders :
                 /\ Len(out.builders[n].calls) = 2
                 /\ out.builders[n].calls[2].op = "add_model"
                 /\ out.builders[n].calls[2].model.material_name = <<109>>

\* The name of the NAME child, its last four characters, and the base name
\* and the LOD they stand for.
ModelNameOf(kids) == TextAt(kids[1].payload, 1)

SuffixOf(n) == IF Len(n) >= 4 THEN SubSeq(n, Len(n) - 3, Len(n)) ELSE << >>

BaseNameOf(n) ==
    IF SuffixOf(n) \in {LOD1, LOD2, LOWD} THEN SubSeq(n, 1, Len(n) - 4) ELSE n

LodOf(n) ==
    IF SuffixOf(n) = LOD1 THEN "one"
    ELSE IF SuffixOf(n) = LOD2 THEN "two"
    ELSE IF SuffixOf(n) = LOWD THEN "lowres"
    ELSE "zero"

\* The segm children of a model chunk, in the order of the chunk.
SegmsOf(kids) ==
    SelectSeq(SubSeq(kids, PreludeEnd(kids) + 1, Len(kids)), LAMBDA k : k.mn = segm_mn)

\* The name of the MNAM child of a segment.
MaterialNameOf(segm) ==
    TextAt(SelectSeq(KidsOf(segm.payload), LAMBDA k : k.mn = MNAM_mn)[1].payload, 1)

\* The calls a builder had before the call.
PriorCalls(key) == IF key \in DOMAIN out.before THEN out.before[key].calls ELSE << >>

\* C13: a model chunk that decodes touches only the builder of the base
\* name of its NAME: after the calls the builder had, set_bbox once and
\* then add_model once per segm child, in the order of the chunk, each
\* model with the LOD of the NAME.
C13_BuilderCalls ==
    (last.op = "handle_model" /\ out.thrown = "none") =>
        /\ PreludeEnd(KidsOf(data)) > 0
        /\ DOMAIN out.builders = DOMAIN out.before \cup {BaseNameOf(ModelNameOf(KidsOf(data)))}
        /\ \A n \in DOMAIN out.before :
               n # BaseNameOf(ModelNameOf(KidsOf(data))) => out.builders[n] = out.before[n]
        /\ \E key \in {BaseNameOf(ModelNameOf(KidsOf(data)))} :
           \E segms \in {SegmsOf(KidsOf(data))} :
           \E calls \in {out.builders[key].calls} :
           \E prior \in {PriorCalls(key)} :
               /\ Len(calls) = Len(prior) + 1 + Len(segms)
               /\ SubSeq(calls, 1, Len(prior)) = prior
               /\ calls[Len(prior) + 1].op = "set_bbox"
               /\ \A i \in 1..Len(segms) :
                      /\ calls[Len(prior) + 1 + i].op = "add_model"
                      /\ calls[Len(prior) + 1 + i].model.lod = LodOf(ModelNameOf(KidsOf(data)))
                      /\ calls[Len(prior) + 1 + i].model.material_name
                             = MaterialNameOf(segms[i])

\* C13 happens: NAME = "cLOD1" and two segments of material names "m" and
\* "n" were handled for PC with a builder of the name "c" there already.
C13_Witness ==
    /\ last.op = "handle_model"
    /\ last.tag = "pc"
    /\ out.thrown = "none"
    /\ ModelNameOf(KidsOf(data)) = <<99>> \o LOD1
    /\ DOMAIN out.before = {<<99>>}
    /\ Len(SegmsOf(KidsOf(data))) = 2
    /\ Len(out.builders[<<99>>].calls) = 5
    /\ out.builders[<<99>>].calls[4].model.material_name = <<109>>
    /\ out.builders[<<99>>].calls[5].model.material_name = <<110>>
    /\ out.builders[<<99>>].calls[5].model.lod = "one"

\* C18: a model chunk that does not begin NAME, VRTX if any, NODE, INFO of
\* 68 or 72 bytes fails, and the builders are left as they were given.
C18_FailedEnvelopeKeepsBuilders ==
    (last.op = "handle_model" /\ PreludeEnd(KidsOf(data)) = 0) =>
        /\ out.thrown # "none"
        /\ out.builders = out.before

\* C18 happens: a model cLOD1 with an INFO of 67 bytes was given with no
\* builders, and none was made.
C18_Witness ==
    /\ last.op = "handle_model"
    /\ out.thrown = "UnknownModelInfo"
    /\ out.before = NoBuilders
    /\ out.builders = NoBuilders
    /\ Len(KidsOf(data)) >= 3
    /\ KidsOf(data)[1] = Kid(NAME_mn, CString(<<99>> \o LOD1))
    /\ KidsOf(data)[3] = Kid(INFO_mn, InfoPayload(67))

(***************************************************************************)
(* Properties of the loops over children.                                  *)
(***************************************************************************)
\* What is left of the payload d at head h is less than a child: its header
\* or the size the header declares does not fit.
ShortOfChild(d, h) ==
    \/ h + HeaderSize > Len(d)
    \/ h + HeaderSize + DeclaredOf(d, h) > Len(d)

\* C19 as claimed: every turn of a loop over children fails or moves the
\* head on by at least 8, the turns made are at most size / 8, and a turn
\* begun with less than a child left fails with BoundsViolation.
C19_WalkWithinSizeOver8 ==
    /\ out.turns * 8 <= Size
    /\ last.op = "read_child" =>
           /\ out.s.thrown = "none" => head >= out.h0 + 8
           /\ ShortOfChild(data, out.h0) => out.s.thrown = "BoundsViolation"

\* C19 as amended: every turn of a loop over children fails or moves the
\* head on by at least 8, so that the turns that succeed are at most
\* size / 8; a turn that fails is the last, so that the turns made are at
\* most size / 8 and one; a turn begun with less than a child left fails
\* with BoundsViolation.
C19_WalkTerminates ==
    /\ out.turns <= (Size \div 8) + 1
    /\ out.turns < MaxTurns
    /\ last.op = "read_child" =>
           /\ out.s.thrown = "none" =>
                  /\ head >= out.h0 + 8
                  /\ out.turns <= Size \div 8
           /\ ShortOfChild(data, out.h0) => out.s.thrown = "BoundsViolation"
           /\ out.s.thrown # "none" => ~ENABLED NextWalk

\* C19 happens: after two turns over children the third found less than a
\* child left and failed with BoundsViolation, and the loop went no further.
C19_Witness ==
    /\ last.op = "read_child"
    /\ out.turns = 3
    /\ out.h0 < Size
    /\ ShortOfChild(data, out.h0)
    /\ out.s.thrown = "BoundsViolation"
    /\ head = out.h0

====
